---- MODULE Spec2Model ----
(***************************************************************************)
(* A model of ffmcli: the transcode run of cmd/root.go (runTranscode), the *)
(* batch and per-file processing of internal/transcoder/transcoder.go with *)
(* its three-tier fallback chain, the platform detector of system.go, the  *)
(* preset registry of presets.go and the path helpers that errors.go       *)
(* holds.                                                                  *)
(*                                                                         *)
(* Strings the code inspects character by character (paths, file names,    *)
(* the GPU listing) are sequences of one-character strings; strings the    *)
(* code only passes along or compares whole (preset names, encoder names,  *)
(* command-line flags) are TLA+ strings.                                   *)
(***************************************************************************)
EXTENDS Integers, Sequences, FiniteSets, TLC

(***************************************************************************)
(* Bounds of the model.                                                    *)
(***************************************************************************)
\* Largest number of entries below the input root in a modelled file tree.
MaxTree == 2
\* Largest GPU index given on the command line.
MaxGPUIndex == 1
\* Largest number of lines in a modelled GPU listing.
MaxLines == 2
\* Largest length of a short file name given to SanitizeFilename.
MaxName == 5
\* Largest length of a name made of the characters SanitizeFilename removes
\* or replaces.
MaxHostile == 2

(***************************************************************************)
(* Generic sequence helpers.                                               *)
(***************************************************************************)
Range(s) == {s[i] : i \in 1..Len(s)}

\* s without its first n elements.
Drop(s, n) == SubSeq(s, n + 1, Len(s))

\* The first n elements of s.
Take(s, n) == SubSeq(s, 1, IF n <= Len(s) THEN n ELSE Len(s))

\* strings.HasPrefix
HasPrefix(s, p) == Len(p) <= Len(s) /\ SubSeq(s, 1, Len(p)) = p

\* strings.HasSuffix
HasSuffix(s, p) == Len(p) <= Len(s) /\ SubSeq(s, Len(s) - Len(p) + 1, Len(s)) = p

\* strings.Contains
Contains(s, sub) ==
    \E i \in 1..(Len(s) - Len(sub) + 1) : SubSeq(s, i, i + Len(sub) - 1) = sub

\* strings.ReplaceAll(s, old, new) for a non-empty old: the leftmost
\* occurrence of old is replaced by new and the search goes on behind it, so
\* that the occurrences replaced do not overlap.
RECURSIVE ReplaceAll(_, _, _)
ReplaceAll(s, old, new) ==
    LET hits == {i \in 1..(Len(s) - Len(old) + 1) :
                    SubSeq(s, i, i + Len(old) - 1) = old}
    IN  IF hits = {} THEN s
        ELSE LET i == CHOOSE k \in hits : \A j \in hits : k <= j
             IN  SubSeq(s, 1, i - 1) \o new
                 \o ReplaceAll(Drop(s, i + Len(old) - 1), old, new)

\* strings.TrimRight(s, cutset)
RECURSIVE TrimRight(_, _)
TrimRight(s, cutset) ==
    IF Len(s) > 0 /\ s[Len(s)] \in cutset
    THEN TrimRight(SubSeq(s, 1, Len(s) - 1), cutset)
    ELSE s

\* strings.TrimSuffix
TrimSuffix(s, suffix) ==
    IF HasSuffix(s, suffix) THEN SubSeq(s, 1, Len(s) - Len(suffix)) ELSE s

\* The last index of character c in s, 0 when there is none.
LastIndex(s, c) ==
    LET hits == {i \in 1..Len(s) : s[i] = c}
    IN  IF hits = {} THEN 0 ELSE CHOOSE i \in hits : \A j \in hits : j <= i

\* strings.ToLower on the letters the modelled names use.
LowerChar(c) ==
    CASE c = "A" -> "a" [] c = "K" -> "k" [] c = "M" -> "m" [] c = "P" -> "p"
      [] c = "V" -> "v" [] c = "I" -> "i" [] c = "T" -> "t" [] c = "S" -> "s"
      [] OTHER -> c

ToLower(s) == [i \in 1..Len(s) |-> LowerChar(s[i])]

(***************************************************************************)
(* path/filepath on a slash-separated file system.                         *)
(***************************************************************************)
\* The path without its trailing separators.
RECURSIVE StripSlashes(_)
StripSlashes(p) ==
    IF Len(p) > 0 /\ p[Len(p)] = "/" THEN StripSlashes(SubSeq(p, 1, Len(p) - 1))
    ELSE p

\* The non-empty elements of a path, in order.
RECURSIVE SplitPath(_)
SplitPath(p) ==
    IF Len(p) = 0 THEN <<>>
    ELSE LET hits == {i \in 1..Len(p) : p[i] = "/"}
         IN  IF hits = {} THEN <<p>>
             ELSE LET i == CHOOSE k \in hits : \A j \in hits : k <= j
                  IN  IF i = 1 THEN SplitPath(Drop(p, 1))
                      ELSE <<Take(p, i - 1)>> \o SplitPath(Drop(p, i))

\* The elements joined again by separators.
RECURSIVE JoinElems(_)
JoinElems(es) ==
    IF Len(es) = 0 THEN <<>>
    ELSE IF Len(es) = 1 THEN es[1]
    ELSE es[1] \o <<"/">> \o JoinElems(Drop(es, 1))

\* The elements filepath.Clean keeps: a "." element is dropped; a ".." element
\* removes the element before it, is dropped at the root of a rooted path, and
\* is kept at the front of a relative one.
RECURSIVE CleanElems(_, _, _)
CleanElems(rest, out, rooted) ==
    IF Len(rest) = 0 THEN out
    ELSE LET e == rest[1]
             next == IF e = <<".">> THEN out
                     ELSE IF e = <<".", ".">>
                     THEN IF Len(out) > 0 /\ out[Len(out)] # <<".", ".">>
                          THEN Take(out, Len(out) - 1)
                          ELSE IF rooted THEN out ELSE Append(out, e)
                     ELSE Append(out, e)
         IN  CleanElems(Drop(rest, 1), next, rooted)

\* filepath.Clean: the shortest equivalent path. Doubled and trailing
\* separators go, "." and inner ".." elements are resolved, and the empty
\* path is ".".
Clean(p) ==
    IF Len(p) = 0 THEN <<".">>
    ELSE LET rooted == p[1] = "/"
             body == JoinElems(CleanElems(SplitPath(p), <<>>, rooted))
         IN  IF rooted THEN <<"/">> \o body
             ELSE IF Len(body) = 0 THEN <<".">> ELSE body

\* filepath.Base
Base(p) ==
    IF Len(p) = 0 THEN <<".">>
    ELSE LET q == StripSlashes(p)
         IN  IF Len(q) = 0 THEN <<"/">> ELSE Drop(q, LastIndex(q, "/"))

\* filepath.Ext: the suffix of the last element that starts at its last dot.
Ext(p) ==
    LET slash == LastIndex(p, "/")
        dot == LastIndex(p, ".")
    IN  IF dot > slash THEN Drop(p, dot - 1) ELSE <<>>

\* filepath.Dir: the path up to its last separator, cleaned.
Dir(p) == Clean(Take(p, LastIndex(p, "/")))

\* filepath.Join of two elements: the elements from the first non-empty one
\* on, joined by separators and cleaned; the empty path when both are empty.
Join2(a, b) ==
    IF Len(a) > 0 THEN Clean(a \o <<"/">> \o b)
    ELSE IF Len(b) > 0 THEN Clean(b)
    ELSE <<>>

\* filepath.Join of three elements.
Join3(a, b, c) ==
    IF Len(a) > 0 THEN Clean(a \o <<"/">> \o b \o <<"/">> \o c)
    ELSE Join2(b, c)

\* The length of the longest common prefix of two element lists.
RECURSIVE CommonLen(_, _)
CommonLen(a, b) ==
    IF Len(a) > 0 /\ Len(b) > 0 /\ a[1] = b[1]
    THEN 1 + CommonLen(Drop(a, 1), Drop(b, 1))
    ELSE 0

\* filepath.Rel(basepath, targpath): both paths are cleaned; "." when they are
\* equal; otherwise ".." for each element of the base that the target does
\* not share, then what is left of the target. A target "." is an element
\* like any other, while a base "." is the empty path. The call fails when
\* one path is rooted and the other is not, and when the first element of the
\* base that differs from the target's is "..".
Rel(basepath, targpath) ==
    LET base == Clean(basepath)
        targ == Clean(targpath)
        b == IF base = <<".">> THEN <<>> ELSE SplitPath(base)
        t == SplitPath(targ)
        baseSlashed == base # <<".">> /\ base[1] = "/"
        targSlashed == targ[1] = "/"
        n == CommonLen(b, t)
        ups == [i \in 1..(Len(b) - n) |-> <<".", ".">>]
    IN  IF targ = base THEN [path |-> <<".">>, failed |-> FALSE]
        ELSE IF baseSlashed # targSlashed
                \/ (n < Len(b) /\ n < Len(t) /\ b[n + 1] = <<".", ".">>)
        THEN [path |-> <<>>, failed |-> TRUE]
        ELSE [path |-> JoinElems(ups \o Drop(t, n)), failed |-> FALSE]

(***************************************************************************)
(* Platform (system.go) and the error values (errors.go).                  *)
(***************************************************************************)
PlatformUnknown == 0

PlatformNVIDIA == 1

PlatformAppleSilicon == 2

PlatformSoftware == 3

ErrorTypeFFmpegNotFound == "ffmpeg_not_found"

ErrorTypeGPUNotAvailable == "gpu_not_available"

ErrorTypeEncoderNotFound == "encoder_not_found"

ErrorTypeInvalidPreset == "invalid_preset"

ErrorTypeInvalidFilePath == "invalid_file_path"

ErrorTypeEncodingFailed == "encoding_failed"

ErrorTypeFileSystemError == "file_system_error"

\* The nil error.
Nil == [kind |-> "nil", Type |-> "", Message |-> "", Embedded |-> {}]

\* The text err.Error() prints, as the set of its fragments: the kind tag of a
\* *TranscoderError, the message, and the text of what it wraps.
ErrorText(err) ==
    IF err.kind = "nil" THEN {}
    ELSE ({err.Message} \cup err.Embedded)
         \cup (IF err.Type = "" THEN {} ELSE {err.Type})

\* NewTranscoderError: a *TranscoderError. Embedded is the text of the cause,
\* which Error() prints after "caused by:".
NewTranscoderError(errorType, message, cause) ==
    [kind |-> "TranscoderError", Type |-> errorType, Message |-> message,
     Embedded |-> ErrorText(cause)]

\* fmt.Errorf(message + ": %v", cause): a plain error value that is not a
\* *TranscoderError; the cause survives only as text.
Errorf(message, cause) ==
    [kind |-> "errorString", Type |-> "", Message |-> message,
     Embedded |-> ErrorText(cause)]

\* The error of a process that exited with a failure status (exec.ExitError)
\* or could not be started; its text never holds the process's error stream.
ExecError(what) ==
    [kind |-> "ExecError", Type |-> "", Message |-> what, Embedded |-> {}]

\* errors.go IsTranscoderError: a type assertion, then the kind.
IsTranscoderError(err, errorType) ==
    err.kind = "TranscoderError" /\ err.Type = errorType

(***************************************************************************)
(* The preset registry (presets.go).                                       *)
(***************************************************************************)
Preset(name, resolution, codec, encoder, bitrate, args, platform) ==
    [Name |-> name, Resolution |-> resolution, Codec |-> codec,
     Encoder |-> encoder, Bitrate |-> bitrate, Args |-> args,
     Platform |-> platform]

NvencArgs(encoder, crf, bitrate, maxrate, bufsize, scale) ==
    <<"-c:v", encoder, "-preset", "p7", "-crf", crf, "-b:v", bitrate,
      "-maxrate", maxrate, "-bufsize", bufsize, "-vf", scale>>

SvtArgs(preset, crf, bitrate, maxrate, bufsize, scale) ==
    <<"-c:v", "libsvtav1", "-preset", preset, "-crf", crf, "-b:v", bitrate,
      "-maxrate", maxrate, "-bufsize", bufsize, "-vf", scale>>

VideoToolboxArgs(encoder, q, bitrate, maxrate, bufsize, scale) ==
    <<"-c:v", encoder, "-q:v", q, "-b:v", bitrate,
      "-maxrate", maxrate, "-bufsize", bufsize, "-vf", scale>>

PresetNames ==
    {"720p_av1", "1080p_av1", "720p_h264", "1080p_h264", "1080p_h265",
     "4k_av1", "4k_h265"}

\* addNVIDIAPresets
nvencPresets ==
    [n \in PresetNames |->
       CASE n = "720p_av1" ->
              Preset(n, "1280x720", "AV1", "av1_nvenc", "2M",
                     NvencArgs("av1_nvenc", "28", "2M", "3M", "6M", "scale=1280:720"),
                     PlatformNVIDIA)
         [] n = "1080p_av1" ->
              Preset(n, "1920x1080", "AV1", "av1_nvenc", "4M",
                     NvencArgs("av1_nvenc", "26", "4M", "6M", "12M", "scale=1920:1080"),
                     PlatformNVIDIA)
         [] n = "720p_h264" ->
              Preset(n, "1280x720", "H.264", "h264_nvenc", "3M",
                     NvencArgs("h264_nvenc", "23", "3M", "4M", "8M", "scale=1280:720"),
                     PlatformNVIDIA)
         [] n = "1080p_h264" ->
              Preset(n, "1920x1080", "H.264", "h264_nvenc", "5M",
                     NvencArgs("h264_nvenc", "23", "5M", "8M", "16M", "scale=1920:1080"),
                     PlatformNVIDIA)
         [] n = "1080p_h265" ->
              Preset(n, "1920x1080", "H.265", "hevc_nvenc", "3M",
                     NvencArgs("hevc_nvenc", "26", "3M", "5M", "10M", "scale=1920:1080"),
                     PlatformNVIDIA)
         [] n = "4k_av1" ->
              Preset(n, "3840x2160", "AV1", "av1_nvenc", "15M",
                     NvencArgs("av1_nvenc", "28", "15M", "20M", "40M", "scale=3840:2160"),
                     PlatformNVIDIA)
         [] n = "4k_h265" ->
              Preset(n, "3840x2160", "H.265", "hevc_nvenc", "20M",
                     NvencArgs("hevc_nvenc", "26", "20M", "30M", "60M", "scale=3840:2160"),
                     PlatformNVIDIA)]

\* addAppleSiliconPresets
appleSiliconPresets ==
    [n \in PresetNames |->
       CASE n = "720p_av1" ->
              Preset(n, "1280x720", "AV1", "libsvtav1", "2M",
                     SvtArgs("6", "28", "2M", "3M", "6M", "scale=1280:720"),
                     PlatformAppleSilicon)
         [] n = "1080p_av1" ->
              Preset(n, "1920x1080", "AV1", "libsvtav1", "4M",
                     SvtArgs("6", "26", "4M", "6M", "12M", "scale=1920:1080"),
                     PlatformAppleSilicon)
         [] n = "720p_h264" ->
              Preset(n, "1280x720", "H.264", "h264_videotoolbox", "3M",
                     VideoToolboxArgs("h264_videotoolbox", "65", "3M", "4M", "8M", "scale=1280:720"),
                     PlatformAppleSilicon)
         [] n = "1080p_h264" ->
              Preset(n, "1920x1080", "H.264", "h264_videotoolbox", "5M",
                     VideoToolboxArgs("h264_videotoolbox", "65", "5M", "8M", "16M", "scale=1920:1080"),
                     PlatformAppleSilicon)
         [] n = "1080p_h265" ->
              Preset(n, "1920x1080", "H.265", "hevc_videotoolbox", "3M",
                     VideoToolboxArgs("hevc_videotoolbox", "65", "3M", "5M", "10M", "scale=1920:1080"),
                     PlatformAppleSilicon)
         [] n = "4k_av1" ->
              Preset(n, "3840x2160", "AV1", "libsvtav1", "15M",
                     SvtArgs("5", "28", "15M", "20M", "40M", "scale=3840:2160"),
                     PlatformAppleSilicon)
         [] n = "4k_h265" ->
              Preset(n, "3840x2160", "H.265", "hevc_videotoolbox", "20M",
                     VideoToolboxArgs("hevc_videotoolbox", "60", "20M", "30M", "60M", "scale=3840:2160"),
                     PlatformAppleSilicon)]

\* detectPlatform: Apple Silicon on darwin/arm64, otherwise Unknown until a
\* GPU check has run.
detectPlatform(appleSilicon) ==
    IF appleSilicon THEN PlatformAppleSilicon ELSE PlatformUnknown

\* GetPresets: the registry of the detected platform, keyed by preset name.
GetPresets(appleSilicon) ==
    IF detectPlatform(appleSilicon) = PlatformAppleSilicon
    THEN appleSiliconPresets
    ELSE nvencPresets

\* A variant of IsValidPreset that accepts every name.
IsValidPreset_AcceptsAll(appleSilicon, name) == TRUE

\* A variant of IsValidPreset that accepts every non-empty name.
IsValidPreset_NonEmpty(appleSilicon, name) == name # ""

\* IsValidPreset over the cache that init() fills from GetPresets.
IsValidPreset(appleSilicon, name) == name \in DOMAIN GetPresets(appleSilicon)

\* GetAvailablePresets: the keys of the cache.
GetAvailablePresets(appleSilicon) == DOMAIN GetPresets(appleSilicon)

\* GetPresetsForPlatform: the presets of the registry (the one GetPresets
\* builds for the detected platform) that are bound to platform.
GetPresetsForPlatform(appleSilicon, platform) ==
    [n \in {k \in DOMAIN GetPresets(appleSilicon) :
               GetPresets(appleSilicon)[k].Platform = platform}
       |-> GetPresets(appleSilicon)[n]]

\* A preset name as the characters that go into a file name.
NameChars(name) ==
    CASE name = "720p_av1" -> <<"7", "2", "0", "p", "_", "a", "v", "1">>
      [] name = "1080p_av1" -> <<"1", "0", "8", "0", "p", "_", "a", "v", "1">>
      [] name = "720p_h264" -> <<"7", "2", "0", "p", "_", "h", "2", "6", "4">>
      [] name = "1080p_h264" -> <<"1", "0", "8", "0", "p", "_", "h", "2", "6", "4">>
      [] name = "1080p_h265" -> <<"1", "0", "8", "0", "p", "_", "h", "2", "6", "5">>
      [] name = "4k_av1" -> <<"4", "k", "_", "a", "v", "1">>
      [] name = "4k_h265" -> <<"4", "k", "_", "h", "2", "6", "5">>
      [] OTHER -> <<"?">>

(***************************************************************************)
(* Path validation and PathUtils (errors.go).                              *)
(***************************************************************************)
\* The path length above which ValidateFilePath and SanitizeWindowsPath treat
\* a path as long.
LongPathLimit == 260

\* The length SanitizeFilename truncates a name to.
MaxFilenameLen == 180

\* The characters ValidateFilePath rejects and SanitizeFilename removes.
problematicChars == {"<", ">", ":", "\"", "|", "?", "*"}

\* A variant of ValidateFilePath that objects to nothing but an asterisk.
ValidateFilePath_AsteriskOnly(path) ==
    IF Len(path) > LongPathLimit THEN Nil
    ELSE IF \E i \in 1..Len(Base(path)) : Base(path)[i] = "*"
         THEN NewTranscoderError(ErrorTypeInvalidFilePath,
                                 "filename contains problematic character", Nil)
         ELSE Nil

\* ValidateFilePath: a path longer than the limit is accepted as it is; else
\* a base name holding a problematic character is an InvalidFilePath error.
ValidateFilePath(path) ==
    IF Len(path) > LongPathLimit THEN Nil
    ELSE IF \E i \in 1..Len(Base(path)) : Base(path)[i] \in problematicChars
         THEN NewTranscoderError(ErrorTypeInvalidFilePath,
                                 "filename contains problematic character", Nil)
         ELSE Nil

\* filepath.Abs: a relative path is joined to the working directory, /w.
Abs(path) ==
    IF HasPrefix(path, <<"/">>) THEN Clean(path) ELSE Join2(<<"/", "w">>, path)

\* The extended-length prefix \\?\ .
LongPrefix == <<"\\", "\\", "?", "\\">>

\* SanitizeWindowsPath: a long path that has no extended-length prefix yet
\* gets it, in absolute form; every other path is returned as it is.
SanitizeWindowsPath(path) ==
    IF Len(path) > LongPathLimit /\ ~HasPrefix(path, LongPrefix)
    THEN LongPrefix \o Abs(path)
    ELSE path

\* The per-character replacements of SanitizeFilename: seven characters are
\* removed, the two separators become underscores. The code applies them one
\* character at a time in map order; they touch disjoint characters and
\* produce none of them, so every order gives this result.
ReplaceProblematic(s) ==
    LET kept == SelectSeq(s, LAMBDA c : c \notin problematicChars)
    IN  [i \in 1..Len(kept) |-> IF kept[i] \in {"/", "\\"} THEN "_" ELSE kept[i]]

\* A variant of SanitizeFilename that replaces the dots before it removes
\* the problematic characters.
SanitizeFilename_DotsFirst(filename) ==
    LET cleaned1 == ReplaceAll(filename, <<".", ".">>, <<"_">>)
        cleaned2 == ReplaceProblematic(cleaned1)
        cleaned3 == IF Len(cleaned2) > MaxFilenameLen
                    THEN Take(cleaned2, MaxFilenameLen) ELSE cleaned2
    IN  TrimRight(cleaned3, {".", " "})

\* A variant of SanitizeFilename that replaces three dots before two.
SanitizeFilename_ThreeFirst(filename) ==
    LET cleaned1 == ReplaceProblematic(filename)
        cleaned2 == ReplaceAll(cleaned1, <<".", ".", ".">>, <<"_">>)
        cleaned3 == ReplaceAll(cleaned2, <<".", ".">>, <<"_">>)
        cleaned4 == IF Len(cleaned3) > MaxFilenameLen
                    THEN Take(cleaned3, MaxFilenameLen) ELSE cleaned3
    IN  TrimRight(cleaned4, {".", " "})

\* A variant of SanitizeFilename that trims before it cuts at the length limit.
SanitizeFilename_TrimFirst(filename) ==
    LET cleaned1 == ReplaceProblematic(filename)
        cleaned2 == ReplaceAll(cleaned1, <<".", ".">>, <<"_">>)
        cleaned3 == ReplaceAll(cleaned2, <<".", ".", ".">>, <<"_">>)
        cleaned4 == TrimRight(cleaned3, {".", " "})
    IN  IF Len(cleaned4) > MaxFilenameLen
        THEN Take(cleaned4, MaxFilenameLen) ELSE cleaned4

\* SanitizeFilename
SanitizeFilename(filename) ==
    LET cleaned1 == ReplaceProblematic(filename)
        cleaned2 == ReplaceAll(cleaned1, <<".", ".">>, <<"_">>)
        cleaned3 == ReplaceAll(cleaned2, <<".", ".", ".">>, <<"_">>)
        cleaned4 == IF Len(cleaned3) > MaxFilenameLen
                    THEN Take(cleaned3, MaxFilenameLen) ELSE cleaned3
    IN  TrimRight(cleaned4, {".", " "})

\* The fixed output extension.
OutputExt == <<".", "m", "k", "v">>

\* A variant of GenerateOutputPath that mirrors the whole directory of the
\* input, not its part below the input root.
GenerateOutputPath_FullDir(inputPath, outputDir, inputBasePath, preset, baseIsDir) ==
    LET outputFilename == SanitizeFilename(TrimSuffix(Base(inputPath), Ext(Base(inputPath))))
                          \o <<"_">> \o NameChars(preset.Name) \o OutputExt
    IN  IF baseIsDir
        THEN Join3(outputDir, Dir(inputPath), outputFilename)
        ELSE Join2(outputDir, outputFilename)

\* A variant of GenerateOutputPath that keeps the input's extension in the
\* output name.
GenerateOutputPath_KeepsExtension(inputPath, outputDir, inputBasePath, preset, baseIsDir) ==
    LET filename == Base(inputPath)
        nameWithoutExt == SanitizeFilename(filename)
        outputFilename == nameWithoutExt \o <<"_">> \o NameChars(preset.Name) \o OutputExt
        relPath == Rel(inputBasePath, Dir(inputPath))
    IN  IF baseIsDir /\ ~relPath.failed /\ relPath.path # <<".">>
        THEN Join3(outputDir, relPath.path, outputFilename)
        ELSE Join2(outputDir, outputFilename)

\* GenerateOutputPath. baseIsDir is what os.Stat(inputBasePath) reports: the
\* call succeeded and the entry is a directory.
GenerateOutputPath(inputPath, outputDir, inputBasePath, preset, baseIsDir) ==
    LET filename == Base(inputPath)
        nameWithoutExt == SanitizeFilename(TrimSuffix(filename, Ext(filename)))
        outputFilename == nameWithoutExt \o <<"_">> \o NameChars(preset.Name) \o OutputExt
        relPath == Rel(inputBasePath, Dir(inputPath))
    IN  IF baseIsDir /\ ~relPath.failed /\ relPath.path # <<".">>
        THEN Join3(outputDir, relPath.path, outputFilename)
        ELSE Join2(outputDir, outputFilename)

(***************************************************************************)
(* File discovery (errors.go).                                             *)
(***************************************************************************)
videoExtensions ==
    {<<".", "m", "p", "4">>, <<".", "m", "k", "v">>, <<".", "a", "v", "i">>,
     <<".", "m", "o", "v">>, <<".", "w", "m", "v">>, <<".", "f", "l", "v">>,
     <<".", "w", "e", "b", "m">>, <<".", "m", "4", "v">>, <<".", "3", "g", "p">>,
     <<".", "t", "s">>, <<".", "m", "t", "s">>, <<".", "m", "2", "t", "s">>}

\* isVideoFile
isVideoFile(filename) == ToLower(Ext(filename)) \in videoExtensions

\* The characters of the modelled names in byte order.
Alphabet ==
    <<" ", "\"", "*", ".", "/", "0", "1", "2", "3", "4", "5", "6", "7", "8",
      "9", ":", "<", ">", "?", "A", "I", "K", "M", "P", "S", "T", "V", "\\",
      "_", "a", "b", "c", "d", "e", "f", "g", "i", "k", "l", "m", "n", "o",
      "p", "s", "t", "u", "v", "w", "x">>

\* The byte order of a character.
Ord(c) == CHOOSE i \in 1..Len(Alphabet) : Alphabet[i] = c

\* a < b in the byte order of strings, by which os.ReadDir and filepath.Walk
\* sort the names of one directory.
RECURSIVE NameLess(_, _)
NameLess(a, b) ==
    IF Len(b) = 0 THEN FALSE
    ELSE IF Len(a) = 0 THEN TRUE
    ELSE IF a[1] # b[1] THEN Ord(a[1]) < Ord(b[1])
    ELSE NameLess(Drop(a, 1), Drop(b, 1))

\* a before b in the order in which filepath.Walk visits paths: directory by
\* directory, the names of each directory in byte order.
RECURSIVE ElemsLess(_, _)
ElemsLess(a, b) ==
    IF Len(b) = 0 THEN FALSE
    ELSE IF Len(a) = 0 THEN TRUE
    ELSE IF a[1] # b[1] THEN NameLess(a[1], b[1])
    ELSE ElemsLess(Drop(a, 1), Drop(b, 1))

WalkLess(p, q) == ElemsLess(SplitPath(p), SplitPath(q))

\* The paths of a set as a list in walk order.
RECURSIVE SortPaths(_)
SortPaths(ps) ==
    IF ps = {} THEN <<>>
    ELSE LET first == CHOOSE p \in ps : \A q \in ps \ {p} : WalkLess(p, q)
         IN  <<first>> \o SortPaths(ps \ {first})

\* os.Stat on a file system given as a set of entries: the entry the path
\* leads to, as a set that is empty when the call fails. A symbolic link, at
\* the path or at a directory above it, is followed to its target; the
\* target of a link is no link.
Stat(fsys, path) ==
    LET real == {path} \cup {l.link \o Drop(path, Len(l.path)) :
                               l \in {x \in fsys : /\ x.link # <<>>
                                                   /\ \/ x.path = path
                                                      \/ HasPrefix(path, x.path \o <<"/">>)}}
    IN  {e \in fsys : e.link = <<>> /\ e.path \in real}

\* os.Stat succeeds.
Exists(fsys, path) == Stat(fsys, path) # {}

\* os.Stat succeeds and reports a directory.
IsDir(fsys, path) == \E e \in Stat(fsys, path) : e.isDir

\* FindVideoFiles: [files, err].
\*   os.Stat fails: no file and a FileSystemError.
\*   Not a directory: the input itself when its extension is allow-listed.
\*   A directory, recursive: filepath.Walk. The root is Lstat'ed, so a
\*   symbolic link to a directory is visited as one entry that is no
\*   directory. Below a directory the entries are visited in walk order, each
\*   directory before its entries; a directory that cannot be listed is
\*   handed to the callback with the error, the callback returns it, and the
\*   walk ends there: the files found so far are returned with that error,
\*   which carries no kind. An entry that is no directory is kept when its
\*   extension is allow-listed.
\*   A directory, not recursive: os.ReadDir, which follows a link at the
\*   root; when it fails, no file and a FileSystemError. The entries that are
\*   no directories are joined to the input path and kept when allow-listed.
FindVideoFiles(fsys, inputPath, recursive) ==
    IF ~Exists(fsys, inputPath)
    THEN [files |-> <<>>,
          err |-> NewTranscoderError(ErrorTypeFileSystemError,
                                     "cannot access input path", ExecError("stat"))]
    ELSE IF IsDir(fsys, inputPath)
    THEN LET dir == CHOOSE e \in Stat(fsys, inputPath) : TRUE
             isLink == \E e \in fsys : e.path = inputPath /\ e.link # <<>>
             Shown(p) == StripSlashes(inputPath) \o Drop(p, Len(dir.path))
             below == {e \in fsys : e = dir \/ HasPrefix(e.path, dir.path \o <<"/">>)}
             unlisted == {d \in below : d.isDir /\ ~d.readable}
             reached == {e \in below :
                            \A d \in unlisted : ~HasPrefix(e.path, d.path \o <<"/">>)}
             order == SortPaths({e.path : e \in reached})
             stops == {i \in 1..Len(order) : \E d \in unlisted : d.path = order[i]}
             visited == IF stops = {} THEN order
                        ELSE Take(order, (CHOOSE k \in stops : \A j \in stops : k <= j) - 1)
             Kept(p) == /\ \E e \in fsys : e.path = p /\ ~e.isDir
                        /\ isVideoFile(p)
             found == SelectSeq(visited, Kept)
             children == {Join2(inputPath, Base(e.path)) :
                            e \in {x \in fsys : /\ x # dir
                                                /\ Dir(x.path) = dir.path
                                                /\ ~x.isDir}}
         IN  IF recursive
             THEN IF isLink
                  THEN [files |-> IF isVideoFile(inputPath) THEN <<inputPath>> ELSE <<>>,
                        err |-> Nil]
                  ELSE [files |-> [i \in 1..Len(found) |-> Shown(found[i])],
                        err |-> IF stops = {} THEN Nil ELSE ExecError("open")]
             ELSE IF ~dir.readable
             THEN [files |-> <<>>,
                   err |-> NewTranscoderError(ErrorTypeFileSystemError,
                                              "cannot read directory", ExecError("open"))]
             ELSE [files |-> SortPaths({p \in children : isVideoFile(p)}),
                   err |-> Nil]
    ELSE [files |-> IF isVideoFile(inputPath) THEN <<inputPath>> ELSE <<>>,
          err |-> Nil]

(***************************************************************************)
(* Command construction (transcoder.go). An argument list is a sequence of *)
(* arguments, each a sequence of strings: a flag or a value the code       *)
(* writes is one string, a path is its characters.                         *)
(***************************************************************************)
\* A list of flag strings as arguments.
Words(ss) == [i \in 1..Len(ss) |-> <<ss[i]>>]

\* extractScaleFilter: the value that follows the first "-vf" that has a
\* value after it; "scale=-1:-1" when there is none.
extractScaleFilter(args) ==
    LET hits == {i \in 1..Len(args) : args[i] = "-vf" /\ i + 1 <= Len(args)}
    IN  IF hits = {} THEN "scale=-1:-1"
        ELSE args[(CHOOSE i \in hits : \A j \in hits : i <= j) + 1]

\* A variant of convertToSoftwarePreset that keeps the software AV1 encoder.
convertToSoftwarePreset_KeepsSvtAv1(preset) ==
    LET enc == preset.Encoder
        codec == IF enc \in {"hevc_nvenc", "hevc_videotoolbox"} THEN "libx265"
                 ELSE IF enc = "libsvtav1" THEN "libsvtav1"
                 ELSE "libx264"
        crf == IF enc \in {"hevc_nvenc", "hevc_videotoolbox"} THEN "26"
               ELSE IF enc \in {"av1_nvenc", "libsvtav1"} THEN "18"
               ELSE "23"
        presetName == IF enc \in {"av1_nvenc", "libsvtav1"}
                      THEN "slower" ELSE "medium"
        args == <<"-c:v", codec, "-preset", presetName, "-crf", crf,
                  "-vf", extractScaleFilter(preset.Args)>>
    IN  IF preset.Bitrate # ""
        THEN args \o <<"-b:v", preset.Bitrate, "-maxrate", preset.Bitrate,
                       "-bufsize", preset.Bitrate>>
        ELSE args

\* convertToSoftwarePreset
convertToSoftwarePreset(preset) ==
    LET enc == preset.Encoder
        codec == IF enc \in {"hevc_nvenc", "hevc_videotoolbox"}
                 THEN "libx265" ELSE "libx264"
        crf == IF enc \in {"hevc_nvenc", "hevc_videotoolbox"} THEN "26"
               ELSE IF enc \in {"av1_nvenc", "libsvtav1"} THEN "18"
               ELSE "23"
        presetName == IF enc \in {"av1_nvenc", "libsvtav1"}
                      THEN "slower" ELSE "medium"
        args == <<"-c:v", codec, "-preset", presetName, "-crf", crf,
                  "-vf", extractScaleFilter(preset.Args)>>
    IN  IF preset.Bitrate # ""
        THEN args \o <<"-b:v", preset.Bitrate, "-maxrate", preset.Bitrate,
                       "-bufsize", preset.Bitrate>>
        ELSE args

\* A variant of buildFFmpegArgs in which hardware mode alone selects the
\* preset's own arguments.
buildFFmpegArgs_AnyPlatform(inputPath, outputPath, preset, useHardware, platform, audioCodec) ==
    LET hwaccel == IF useHardware /\ platform = PlatformAppleSilicon
                   THEN <<"-hwaccel", "videotoolbox">>
                   ELSE IF useHardware /\ platform = PlatformNVIDIA
                   THEN <<"-hwaccel", "auto">>
                   ELSE <<>>
        video == IF useHardware THEN preset.Args ELSE convertToSoftwarePreset(preset)
        audio == IF audioCodec = "" \/ audioCodec = "copy"
                 THEN <<"-c:a", "copy">>
                 ELSE <<"-c:a", audioCodec, "-b:a", "128k">>
    IN  Words(<<"-hide_banner", "-loglevel", "warning">> \o hwaccel \o <<"-i">>)
        \o <<inputPath>> \o Words(video \o audio \o <<"-y">>) \o <<outputPath>>

\* A variant of buildFFmpegArgs that gives the decode-acceleration hint of
\* the platform in software mode too.
buildFFmpegArgs_HintAlways(inputPath, outputPath, preset, useHardware, platform, audioCodec) ==
    LET hwaccel == IF platform = PlatformAppleSilicon
                   THEN <<"-hwaccel", "videotoolbox">>
                   ELSE IF platform = PlatformNVIDIA
                   THEN <<"-hwaccel", "auto">>
                   ELSE <<>>
        video == IF useHardware /\ (preset.Platform = platform
                                    \/ preset.Platform = PlatformUnknown)
                 THEN preset.Args
                 ELSE convertToSoftwarePreset(preset)
        audio == IF audioCodec = "" \/ audioCodec = "copy"
                 THEN <<"-c:a", "copy">>
                 ELSE <<"-c:a", audioCodec, "-b:a", "128k">>
    IN  Words(<<"-hide_banner", "-loglevel", "warning">> \o hwaccel \o <<"-i">>)
        \o <<inputPath>> \o Words(video \o audio \o <<"-y">>) \o <<outputPath>>

\* A variant of buildFFmpegArgs that gives the hint "auto" in hardware mode
\* on every platform but Apple Silicon.
buildFFmpegArgs_HintOffApple(inputPath, outputPath, preset, useHardware, platform, audioCodec) ==
    LET hwaccel == IF useHardware /\ platform = PlatformAppleSilicon
                   THEN <<"-hwaccel", "videotoolbox">>
                   ELSE IF useHardware
                   THEN <<"-hwaccel", "auto">>
                   ELSE <<>>
        video == IF useHardware /\ (preset.Platform = platform
                                    \/ preset.Platform = PlatformUnknown)
                 THEN preset.Args
                 ELSE convertToSoftwarePreset(preset)
        audio == IF audioCodec = "" \/ audioCodec = "copy"
                 THEN <<"-c:a", "copy">>
                 ELSE <<"-c:a", audioCodec, "-b:a", "128k">>
    IN  Words(<<"-hide_banner", "-loglevel", "warning">> \o hwaccel \o <<"-i">>)
        \o <<inputPath>> \o Words(video \o audio \o <<"-y">>) \o <<outputPath>>

\* buildFFmpegArgs
buildFFmpegArgs(inputPath, outputPath, preset, useHardware, platform, audioCodec) ==
    LET head == <<"-hide_banner", "-loglevel", "warning">>
        hwaccel == IF useHardware /\ platform = PlatformAppleSilicon
                   THEN <<"-hwaccel", "videotoolbox">>
                   ELSE IF useHardware /\ platform = PlatformNVIDIA
                   THEN <<"-hwaccel", "auto">>
                   ELSE <<>>
        video == IF useHardware /\ (preset.Platform = platform
                                    \/ preset.Platform = PlatformUnknown)
                 THEN preset.Args
                 ELSE convertToSoftwarePreset(preset)
        audio == IF audioCodec = "" \/ audioCodec = "copy"
                 THEN <<"-c:a", "copy">>
                 ELSE <<"-c:a", audioCodec, "-b:a", "128k">>
    IN  Words(head \o hwaccel \o <<"-i">>) \o <<inputPath>>
        \o Words(video \o audio \o <<"-y">>) \o <<outputPath>>

\* createSafeFallbackArgs
createSafeFallbackArgs(inputPath, outputPath) ==
    Words(<<"-hide_banner", "-loglevel", "error", "-i">>) \o <<inputPath>>
    \o Words(<<"-c:v", "libx264", "-preset", "medium", "-crf", "23",
               "-c:a", "copy", "-y">>) \o <<outputPath>>

\* The argument list of probeInputFile.
probeArgs(inputPath) ==
    Words(<<"-hide_banner", "-loglevel", "error", "-i">>) \o <<inputPath>>
    \o Words(<<"-f", "null", "-t", "1", "-">>)

(***************************************************************************)
(* The platform detector's checks (system.go). The results of the external *)
(* commands are inputs: whether the command failed, and what it printed.   *)
(***************************************************************************)
\* strings.Split(s, "\n"): the pieces between the line breaks.
RECURSIVE SplitLines(_)
SplitLines(s) ==
    LET hits == {i \in 1..Len(s) : s[i] = "\n"}
    IN  IF hits = {} THEN <<s>>
        ELSE LET i == CHOOSE k \in hits : \A j \in hits : k <= j
             IN  <<Take(s, i - 1)>> \o SplitLines(Drop(s, i))

\* The number of lines of the listing that contain "GPU".
CountGPUs(output) ==
    Cardinality({i \in 1..Len(SplitLines(output)) :
                    Contains(SplitLines(output)[i], <<"G", "P", "U">>)})

\* A variant of checkNVIDIAAvailability whose index test is off by one: an
\* index equal to the device count passes.
checkNVIDIAAvailability_OffByOne(platform, gpuIndex, execFailed, output) ==
    IF execFailed
    THEN [err |-> NewTranscoderError(ErrorTypeGPUNotAvailable,
                      "NVIDIA GPU not detected. Please ensure NVIDIA drivers are installed",
                      ExecError("nvidia-smi")),
          platform |-> PlatformSoftware]
    ELSE IF CountGPUs(output) = 0
    THEN [err |-> NewTranscoderError(ErrorTypeGPUNotAvailable,
                                     "no NVIDIA GPUs found", Nil),
          platform |-> PlatformSoftware]
    ELSE IF gpuIndex > CountGPUs(output)
    THEN [err |-> NewTranscoderError(ErrorTypeGPUNotAvailable,
                                     "GPU index not available", Nil),
          platform |-> platform]
    ELSE [err |-> Nil, platform |-> PlatformNVIDIA]

\* A variant of checkNVIDIAAvailability that also downgrades the platform
\* when the index is out of range.
checkNVIDIAAvailability_DowngradesOnIndex(platform, gpuIndex, execFailed, output) ==
    IF execFailed
    THEN [err |-> NewTranscoderError(ErrorTypeGPUNotAvailable,
                      "NVIDIA GPU not detected. Please ensure NVIDIA drivers are installed",
                      ExecError("nvidia-smi")),
          platform |-> PlatformSoftware]
    ELSE IF CountGPUs(output) = 0
    THEN [err |-> NewTranscoderError(ErrorTypeGPUNotAvailable,
                                     "no NVIDIA GPUs found", Nil),
          platform |-> PlatformSoftware]
    ELSE IF gpuIndex >= CountGPUs(output)
    THEN [err |-> NewTranscoderError(ErrorTypeGPUNotAvailable,
                                     "GPU index not available", Nil),
          platform |-> PlatformSoftware]
    ELSE [err |-> Nil, platform |-> PlatformNVIDIA]

\* checkNVIDIAAvailability: [err, platform], the error returned and the
\* platform value the checker holds afterwards.
checkNVIDIAAvailability(platform, gpuIndex, execFailed, output) ==
    IF execFailed
    THEN [err |-> NewTranscoderError(ErrorTypeGPUNotAvailable,
                      "NVIDIA GPU not detected. Please ensure NVIDIA drivers are installed",
                      ExecError("nvidia-smi")),
          platform |-> PlatformSoftware]
    ELSE IF CountGPUs(output) = 0
    THEN [err |-> NewTranscoderError(ErrorTypeGPUNotAvailable,
                                     "no NVIDIA GPUs found", Nil),
          platform |-> PlatformSoftware]
    ELSE IF gpuIndex >= CountGPUs(output)
    THEN [err |-> NewTranscoderError(ErrorTypeGPUNotAvailable,
                                     "GPU index not available", Nil),
          platform |-> platform]
    ELSE [err |-> Nil, platform |-> PlatformNVIDIA]

\* CheckEncoderAvailability: [available, err]. listing is the outcome of
\* "ffmpeg -encoders": "failed", or the set of encoder names it printed.
CheckEncoderAvailability(encoder, failed, listed) ==
    IF failed
    THEN [available |-> FALSE,
          err |-> NewTranscoderError(ErrorTypeEncoderNotFound,
                                     "failed to check encoders", ExecError("ffmpeg"))]
    ELSE [available |-> encoder \in listed, err |-> Nil]

\* checkAppleSiliconAvailability: the two VideoToolbox encoders are looked up
\* one after the other, each with its own run of the encoder listing; runs is
\* the outcome [failed, listed] of each. The platform value is not written.
checkAppleSiliconAvailability(platform, runs) ==
    LET encoders == <<"h264_videotoolbox", "hevc_videotoolbox">>
        res == [i \in 1..2 |->
                  CheckEncoderAvailability(encoders[i], runs[i].failed, runs[i].listed)]
        bad == {i \in 1..2 : res[i].err # Nil \/ ~res[i].available}
        first == CHOOSE i \in bad : \A j \in bad : i <= j
    IN  IF bad = {} THEN [err |-> Nil, platform |-> platform]
        ELSE IF res[first].err # Nil
        THEN [err |-> NewTranscoderError(ErrorTypeGPUNotAvailable,
                          "Failed to check VideoToolbox encoder availability",
                          res[first].err),
              platform |-> platform]
        ELSE [err |-> NewTranscoderError(ErrorTypeGPUNotAvailable,
                          "VideoToolbox encoders not available. Please ensure FFmpeg is built with VideoToolbox support",
                          Nil),
              platform |-> platform]

\* CheckGPUAvailability: by the platform value the checker holds.
CheckGPUAvailability(platform, gpuIndex, execFailed, output, runs) ==
    IF platform = PlatformAppleSilicon
    THEN checkAppleSiliconAvailability(platform, runs)
    ELSE checkNVIDIAAvailability(platform, gpuIndex, execFailed, output)

\* CheckFFmpegAvailability: the error for a failed "ffmpeg -version".
CheckFFmpegAvailability(platform, failed) ==
    IF ~failed THEN Nil
    ELSE IF platform = PlatformAppleSilicon
    THEN NewTranscoderError(ErrorTypeFFmpegNotFound,
             "FFmpeg not found. Please install FFmpeg with VideoToolbox support (brew install ffmpeg)",
             ExecError("ffmpeg"))
    ELSE NewTranscoderError(ErrorTypeFFmpegNotFound,
             "FFmpeg not found. Please install FFmpeg with NVIDIA support",
             ExecError("ffmpeg"))

\* Lines a GPU listing is made of.
GpuLine == <<"G", "P", "U", " ", "0">>

OtherLine == <<"N", "o", " ", "d", "e", "v">>

\* The listings of at most n lines, each line ended by a line break.
RECURSIVE Listings(_)
Listings(n) ==
    IF n = 0 THEN {<<>>}
    ELSE Listings(n - 1)
         \cup {l \o line \o <<"\n">> :
                 l \in Listings(n - 1), line \in {GpuLine, OtherLine, <<>>}}

\* The outcomes of one run of the encoder listing.
EncoderRuns ==
    {[failed |-> TRUE, listed |-> {}],
     [failed |-> FALSE, listed |-> {"libx264"}],
     [failed |-> FALSE, listed |-> {"libx264", "h264_videotoolbox"}],
     [failed |-> FALSE, listed |-> {"libx264", "h264_videotoolbox", "hevc_videotoolbox"}]}

(***************************************************************************)
(* The state of a run.                                                     *)
(***************************************************************************)
VARIABLES
    entry,        \* the function that was called: "runTranscode", "ProcessFiles",
                  \* "ProcessFilesWithProgress", or "SystemChecker" for a bare detector
    config,       \* the Config the transcoder was built from
    csvWriter,    \* whether an analytics sink is given (--csv-output, csvWriter # nil)
    appleSilicon, \* runtime.GOOS = "darwin" /\ runtime.GOARCH = "arm64"
    ffmpegInstalled, \* whether the ffmpeg executable can be started at all
    fs,           \* the file system: a set of entries [path, isDir, regular]
    platform,     \* SystemChecker.platform
    pc,           \* the position of the run
    files,        \* the list of files the batch works on
    idx,          \* the number of files the batch loop has finished
    outputPath,   \* processFile's outputPath of the file in progress
    calls,        \* the ffmpeg invocations launched for files, in order
    results,      \* what per-file processing returned for each finished file
    errors,       \* the batch's errors slice
    rows,         \* the data rows written to the analytics sink and flushed
    lastCheck,    \* the last capability check: its inputs and what it returned
    request,      \* the library call the caller makes: function and arguments
    lastCall,     \* the last library function called on its own: its arguments,
                  \* what it read of the environment, what it returned, and
                  \* (earlier) the same call made before it
    runErr        \* what the called function returned (once pc = "done")

vars == <<entry, config, csvWriter, appleSilicon, ffmpegInstalled, fs, platform,
          pc, files, idx, outputPath, calls, results, errors, rows, lastCheck,
          request, lastCall, runErr>>

\* The paths of the modelled runs.
InputRoot == <<"i", "n">>

OutputRoot == <<"o", "u", "t">>

CsvPath == <<"l", "o", "g", ".", "c", "s", "v">>

\* A path of a file list that names no file of the disk.
GhostFile == <<"i", "n", "/", "x", ".", "m", "p", "4">>

\* An entry of the file system: what os.Lstat reports of the path (isDir,
\* regular), whether a directory can be listed, and the target of a symbolic
\* link (the empty path for an entry that is no link).
File(path) ==
    [path |-> path, isDir |-> FALSE, regular |-> TRUE, readable |-> TRUE, link |-> <<>>]

Directory(path) ==
    [path |-> path, isDir |-> TRUE, regular |-> FALSE, readable |-> TRUE, link |-> <<>>]

\* An entry that is neither a directory nor a regular file: a named pipe, a
\* socket, a device; with a link target, a symbolic link.
Special(path) ==
    [path |-> path, isDir |-> FALSE, regular |-> FALSE, readable |-> TRUE, link |-> <<>>]

\* What may lie below the input root.
TreeUniverse ==
    {File(<<"i", "n", "/", "a", ".", "m", "p", "4">>),
     File(<<"i", "n", "/", "a", ".", "m", "k", "v">>),
     File(<<"i", "n", "/", "b", "?", ".", "m", "p", "4">>),
     File(<<"i", "n", "/", "n", ".", "t", "x", "t">>),
     Directory(<<"i", "n", "/", "s">>),
     File(<<"i", "n", "/", "s", "/", "c", ".", "A", "V", "I">>)}

\* The trees of at most MaxTree entries below the input root: every entry's
\* directory is in the tree.
Trees ==
    {t \cup {Directory(InputRoot)} :
        t \in {u \in SUBSET TreeUniverse :
                  /\ Cardinality(u) <= MaxTree
                  /\ \A e \in u : Dir(e.path) = InputRoot
                                  \/ Directory(Dir(e.path)) \in u}}

\* A path and the directories above it.
RECURSIVE WithParents(_)
WithParents(path) ==
    IF Dir(path) \in {<<".">>, <<"/">>, path} THEN {path}
    ELSE {path} \cup WithParents(Dir(path))

\* os.MkdirAll: the directory and the missing directories above it.
MkdirAll(fsys, path) ==
    fsys \cup {Directory(d) : d \in {x \in WithParents(path) : ~Exists(fsys, x)}}

\* The file system after a process has written a regular file.
WriteFile(fsys, path) == {e \in fsys : e.path # path} \cup {File(path)}

NoCheck ==
    [op |-> "none", before |-> PlatformUnknown, gpuIndex |-> 0,
     execFailed |-> FALSE, output |-> <<>>, runs |-> <<>>, err |-> Nil]

\* No library call is made.
NoRequest == [op |-> "none", args |-> <<>>]

\* No library function has been called on its own.
NoCall ==
    [op |-> "none", args |-> <<>>, env |-> <<>>, result |-> <<>>, earlier |-> <<>>]

\* Config.Validate: the configuration after the call and the error returned.
\* Unless SkipValidation is set, an empty input path and then an empty output
\* directory are InvalidFilePath errors, returned with the configuration
\* untouched. Otherwise a negative GPU index becomes 0, an empty audio codec
\* "copy", and the error is nil.
Validate(c) ==
    LET coerced == [c EXCEPT !.GPUIndex = IF c.GPUIndex < 0 THEN 0 ELSE c.GPUIndex,
                             !.AudioCodec = IF c.AudioCodec = "" THEN "copy"
                                            ELSE c.AudioCodec]
    IN  IF c.SkipValidation THEN [config |-> coerced, err |-> Nil]
        ELSE IF c.InputPath = <<>>
        THEN [config |-> c,
              err |-> NewTranscoderError(ErrorTypeInvalidFilePath,
                                         "input path is required", Nil)]
        ELSE IF c.OutputDir = <<>>
        THEN [config |-> c,
              err |-> NewTranscoderError(ErrorTypeInvalidFilePath,
                                         "output directory is required", Nil)]
        ELSE [config |-> coerced, err |-> Nil]

\* The preset names a run is configured with: a registered one and one the
\* registry does not hold.
PresetChoices == {"1080p_h264", "480p_h264"}

Configs ==
    [InputPath : {InputRoot}, OutputDir : {OutputRoot}, Preset : PresetChoices,
     GPUIndex : 0..MaxGPUIndex, AudioCodec : {"copy"}, Verbose : {FALSE},
     Recursive : BOOLEAN, Overwrite : BOOLEAN, NoGPU : BOOLEAN,
     DryRun : BOOLEAN, SkipValidation : {FALSE}]

\* The output paths that the files of a tree can be given.
PossibleOutputs(tree, c) ==
    {GenerateOutputPath(e.path, c.OutputDir, c.InputPath,
                        nvencPresets["1080p_h264"], TRUE) :
        e \in {x \in tree : ~x.isDir /\ isVideoFile(x.path)}}

\* The disk before the run: a tree below the input root, and at most one
\* output left by an earlier run (with the directories above it).
Disks(c) ==
    UNION {{t} \cup {WriteFile(MkdirAll(t, Dir(o)), o) : o \in PossibleOutputs(t, c)} :
             t \in Trees}

\* Transcoder.FindVideoFiles
TranscoderFindVideoFiles(fsys, c) == FindVideoFiles(fsys, c.InputPath, c.Recursive)

\* The state after construction. A run of the command line starts at
\* runTranscode with the flags parsed. A call of ProcessFiles or
\* ProcessFilesWithProgress starts with a Transcoder from New, which may have
\* run a GPU check, and a file list: what discovery found, possibly with a
\* path in front that names no file.
Init ==
    /\ entry \in {"runTranscode", "ProcessFiles", "ProcessFilesWithProgress"}
    /\ config \in Configs
    /\ entry # "runTranscode" => config.GPUIndex = 0 /\ ~config.DryRun
    /\ csvWriter \in BOOLEAN
    /\ entry = "ProcessFiles" => ~csvWriter
    /\ appleSilicon \in BOOLEAN
    /\ ffmpegInstalled \in BOOLEAN
    /\ fs \in Disks(config)
    /\ platform \in IF entry = "runTranscode" \/ appleSilicon
                    THEN {detectPlatform(appleSilicon)}
                    ELSE {PlatformUnknown, PlatformNVIDIA, PlatformSoftware}
    /\ pc = IF entry = "runTranscode" THEN "start" ELSE "loop"
    /\ files \in IF entry = "runTranscode" THEN {<<>>}
                 ELSE LET found == TranscoderFindVideoFiles(fs, config).files
                      IN  {found} \cup IF Len(found) < MaxTree
                                       THEN {<<GhostFile>> \o found} ELSE {}
    /\ idx = 0
    /\ outputPath = <<>>
    /\ calls = <<>>
    /\ results = <<>>
    /\ errors = <<>>
    /\ rows = <<>>
    /\ lastCheck = NoCheck
    /\ request = NoRequest
    /\ lastCall = NoCall
    /\ runErr = Nil

(***************************************************************************)
(* runTranscode (cmd/root.go).                                             *)
(***************************************************************************)
\* The run ends: runTranscode returns err.
Return(err) ==
    /\ pc' = "done"
    /\ runErr' = err

\* Lines 74-85: the required flags, and os.Stat of the input.
RunStart ==
    /\ pc = "start"
    /\ IF config.InputPath = <<>>
       THEN Return(Errorf("input file or directory is required", Nil))
       ELSE IF config.OutputDir = <<>>
       THEN Return(Errorf("output directory is required", Nil))
       ELSE IF ~Exists(fs, config.InputPath)
       THEN Return(Errorf("input file or directory does not exist", Nil))
       ELSE pc' = "rt_mkdir" /\ runErr' = runErr
    /\ UNCHANGED <<request, lastCall, entry, config, csvWriter, appleSilicon, ffmpegInstalled, fs,
                   platform, files, idx, outputPath, calls, results, errors,
                   rows, lastCheck>>

\* Lines 87-113: the output directory is created, then the preset is
\* validated against the registry, then the transcoder is built (New: the
\* configuration is validated, a failure being a panic that ends the process,
\* and the platform detected).
RunPrepare ==
    /\ pc = "rt_mkdir"
    /\ \E mkdirOk \in BOOLEAN :
         IF ~mkdirOk
         THEN /\ Return(Errorf("failed to create output directory", ExecError("mkdir")))
              /\ UNCHANGED <<fs, config, platform>>
         ELSE /\ fs' = MkdirAll(fs, config.OutputDir)
              /\ IF ~IsValidPreset(appleSilicon, config.Preset)
                 THEN /\ Return(Errorf("invalid preset", Nil))
                      /\ UNCHANGED <<config, platform>>
                 ELSE IF Validate(config).err # Nil
                 THEN /\ pc' = "panicked"
                      /\ UNCHANGED <<config, platform, runErr>>
                 ELSE /\ config' = Validate(config).config
                      /\ platform' = detectPlatform(appleSilicon)
                      /\ pc' = IF config.NoGPU THEN "rt_find" ELSE "rt_gpu"
                      /\ runErr' = runErr
    /\ UNCHANGED <<request, lastCall, entry, csvWriter, appleSilicon, ffmpegInstalled, files, idx,
                   outputPath, calls, results, errors, rows, lastCheck>>

\* What a GPU check can meet: on Apple Silicon the outcomes of the two
\* encoder listings (every one a failure when ffmpeg cannot be started), on
\* another platform the outcome of the GPU listing, of at most n lines.
GPUCheckInputs(plat, installed, n) ==
    IF plat = PlatformAppleSilicon
    THEN {[execFailed |-> FALSE, output |-> <<>>, runs |-> r] :
            r \in {x \in [1..2 -> EncoderRuns] :
                      installed \/ \A i \in 1..2 : x[i].failed}}
    ELSE {[execFailed |-> TRUE, output |-> <<>>, runs |-> <<>>]}
         \cup {[execFailed |-> FALSE, output |-> o, runs |-> <<>>] : o \in Listings(n)}

\* The record of a GPU check: its inputs, the platform before, the error.
Checked(before, gpuIndex, in, err) ==
    [op |-> "CheckGPUAvailability", before |-> before, gpuIndex |-> gpuIndex,
     execFailed |-> in.execFailed, output |-> in.output, runs |-> in.runs,
     err |-> err]

\* Lines 115-122: the GPU check, skipped in software-only mode; its error
\* ends the run.
RunCheckGPU ==
    /\ pc = "rt_gpu"
    /\ \E in \in GPUCheckInputs(platform, ffmpegInstalled, 1) :
         LET r == CheckGPUAvailability(platform, config.GPUIndex, in.execFailed,
                                       in.output, in.runs)
         IN  /\ lastCheck' = Checked(platform, config.GPUIndex, in, r.err)
             /\ platform' = r.platform
             /\ IF r.err # Nil THEN Return(r.err)
                ELSE pc' = "rt_find" /\ runErr' = runErr
    /\ UNCHANGED <<request, lastCall, entry, config, csvWriter, appleSilicon, ffmpegInstalled, fs,
                   files, idx, outputPath, calls, results, errors, rows>>

\* Lines 124-134: file discovery.
RunFind ==
    /\ pc = "rt_find"
    /\ LET r == TranscoderFindVideoFiles(fs, config)
       IN  IF r.err # Nil
           THEN Return(Errorf("failed to find video files", r.err)) /\ files' = files
           ELSE IF Len(r.files) = 0
           THEN Return(Errorf("no video files found", Nil)) /\ files' = files
           ELSE /\ files' = r.files
                /\ pc' = IF csvWriter THEN "rt_csv" ELSE "loop"
                /\ runErr' = runErr
    /\ UNCHANGED <<request, lastCall, entry, config, csvWriter, appleSilicon, ffmpegInstalled, fs,
                   platform, idx, outputPath, calls, results, errors, rows,
                   lastCheck>>

\* Lines 136-155: the analytics file is created and its header written. The
\* header goes to the writer's buffer, which a header cannot fill, so only
\* the creation can fail.
RunCsv ==
    /\ pc = "rt_csv"
    /\ \E createOk \in BOOLEAN :
         IF ~createOk
         THEN Return(Errorf("failed to create CSV file", ExecError("create"))) /\ fs' = fs
         ELSE fs' = WriteFile(fs, CsvPath) /\ pc' = "loop" /\ runErr' = runErr
    /\ UNCHANGED <<request, lastCall, entry, config, csvWriter, appleSilicon, ffmpegInstalled,
                   platform, files, idx, outputPath, calls, results, errors,
                   rows, lastCheck>>

(***************************************************************************)
(* Batch and per-file processing (transcoder.go). One action per external  *)
(* process that per-file processing waits for; what the process does is    *)
(* the action's input: ok, whether it exited with success.                 *)
(***************************************************************************)
\* The file the batch loop is at.
CurrentFile == files[idx + 1]

\* processFile's inputPath after SanitizeWindowsPath.
CurrentInput == SanitizeWindowsPath(CurrentFile)

\* The preset of the run; read only where the registry holds it.
CurrentPreset == GetPresets(appleSilicon)[config.Preset]

\* The text a tier's ffmpeg process writes to its error stream.
Stderr(tier) ==
    CASE tier = "probe" -> "stderr of the probe"
      [] tier = "primary" -> "stderr of the primary attempt"
      [] tier = "software" -> "stderr of the software fallback"
      [] tier = "safe" -> "stderr of the safe fallback"

\* An ffmpeg invocation for a file: the tier that launched it, whether its
\* arguments were built in hardware mode, the arguments, and its exit.
Call(tier, useHardware, args, ok) ==
    [file |-> CurrentFile, tier |-> tier, useHardware |-> useHardware,
     args |-> args, ok |-> ok]

\* An analytics row: the fields that do not depend on the clock or on sizes.
Row(err) ==
    [filename |-> Base(CurrentFile), preset |-> config.Preset,
     status |-> IF err # Nil THEN "error" ELSE "success"]

\* Per-file processing returns err to the batch loop. With progress tracking
\* processFileWithAnalytics first writes and flushes the file's row when it
\* has a sink (wroteRow: it got as far as processFile); the loop then appends
\* a non-nil error to its errors and goes on to the next file.
FinishFile(err, wroteRow) ==
    /\ results' = Append(results, err)
    /\ rows' = IF entry # "ProcessFiles" /\ csvWriter /\ wroteRow
               THEN Append(rows, Row(err)) ELSE rows
    /\ errors' = IF err # Nil THEN Append(errors, err) ELSE errors
    /\ idx' = idx + 1
    /\ outputPath' = <<>>
    /\ pc' = "loop"

\* A variant of probeInputFile that ignores the probe's exit status.
probeInputFile_IgnoresExit(ok) == Nil

\* probeInputFile's result: nil for a probe that exited with success, else
\* EncodingFailed with the process error and the probe's error stream.
probeInputFile(ok) ==
    IF ok THEN Nil
    ELSE NewTranscoderError(ErrorTypeEncodingFailed, "input file probe failed",
                            Errorf(Stderr("probe"), ExecError("exit status")))

\* A variant of the skip test that ignores the overwrite setting.
ShouldSkip_IgnoresOverwrite(overwrite, exists) == exists

\* Lines 138-139: the file is skipped when overwrite is off and os.Stat of
\* the output path succeeds.
ShouldSkip(overwrite, exists) == ~overwrite /\ exists

\* Line 159: the mode the primary attempt is built in.
PrimaryUseHardware(c) == ~c.NoGPU

\* A variant of the fallback order that leaves the software tier out.
NextTier_SkipsSoftware(tier, noGPU) ==
    CASE tier = "primary" -> IF noGPU THEN "none" ELSE "safe"
      [] tier = "software" -> "safe"
      [] tier = "safe" -> "none"

\* A variant of the fallback order that ignores the no-GPU flag.
NextTier_IgnoresNoGPU(tier, noGPU) ==
    CASE tier = "primary" -> "software"
      [] tier = "software" -> "safe"
      [] tier = "safe" -> "none"

\* A variant of NextTier in which the safe fallback follows a failed attempt
\* in software-only mode.
NextTier_SafeWithoutHardware(tier, noGPU) ==
    CASE tier = "primary" -> IF noGPU THEN "safe" ELSE "software"
      [] tier = "software" -> "safe"
      [] tier = "safe" -> "none"

\* handleEncodingError: the tier attempted after tier has failed, "none" when
\* the failure is final. With the no-GPU flag the primary attempt has no
\* fallback; otherwise software follows primary and safe follows software.
NextTier(tier, noGPU) ==
    CASE tier = "primary" -> IF noGPU THEN "none" ELSE "software"
      [] tier = "software" -> "safe"
      [] tier = "safe" -> "none"

\* A variant of handleEncodingError that reports no error after the last tier.
EncodingError_Swallowed(tier) ==
    IF tier = "safe" THEN Nil
    ELSE NewTranscoderError(ErrorTypeEncodingFailed,
                            "encoding failed", ExecError("exit status"))

\* handleEncodingError: the error of a final failure. Both carry the exit
\* error of the process as cause, not what the process wrote.
EncodingError(tier) ==
    IF tier = "safe"
    THEN NewTranscoderError(ErrorTypeEncodingFailed,
                            "all encoding attempts failed", ExecError("exit status"))
    ELSE NewTranscoderError(ErrorTypeEncodingFailed,
                            "encoding failed", ExecError("exit status"))

\* A variant of the batch result that tolerates one failure.
BatchResult_ToleratesOne(errs) ==
    IF Len(errs) > 1 THEN Errorf("transcoding completed with errors", Nil) ELSE Nil

\* Lines 70-78 and 98-106: what the batch returns for its errors slice.
BatchResult(errs) ==
    IF Len(errs) > 0 THEN Errorf("transcoding completed with errors", Nil) ELSE Nil

\* The loop takes the next file. processFileWithAnalytics (lines 290-302)
\* stats the input first and returns a FileSystemError, without a row, when
\* that fails. processFile (lines 110-123) looks the preset up, then
\* validates the path.
StartFile ==
    /\ pc = "loop"
    /\ idx < Len(files)
    /\ IF entry # "ProcessFiles" /\ ~Exists(fs, CurrentFile)
       THEN FinishFile(NewTranscoderError(ErrorTypeFileSystemError,
                           "failed to get input file info", ExecError("stat")), FALSE)
       ELSE IF config.Preset \notin DOMAIN GetPresets(appleSilicon)
       THEN FinishFile(NewTranscoderError(ErrorTypeInvalidPreset,
                                          "preset not found", Nil), TRUE)
       ELSE IF ValidateFilePath(CurrentInput) # Nil
       THEN FinishFile(Errorf("invalid file path", ValidateFilePath(CurrentInput)), TRUE)
       ELSE /\ pc' = "probe"
            /\ UNCHANGED <<results, rows, errors, idx, outputPath>>
    /\ UNCHANGED <<request, lastCall, entry, config, csvWriter, appleSilicon, ffmpegInstalled, fs,
                   platform, files, calls, lastCheck, runErr>>

\* Lines 125-145: the probe, then the output path and the skip check. A
\* failed probe ends the file. After a passing probe the output path is
\* generated, and the file is skipped when ShouldSkip says so.
Probe ==
    /\ pc = "probe"
    /\ \E ok \in BOOLEAN :
         /\ ok => ffmpegInstalled /\ Exists(fs, CurrentFile)
         /\ calls' = Append(calls, Call("probe", FALSE, probeArgs(CurrentInput), ok))
         /\ IF probeInputFile(ok) # Nil
            THEN FinishFile(Errorf("input file validation failed",
                                   probeInputFile(ok)), TRUE)
            ELSE LET out == SanitizeWindowsPath(
                                GenerateOutputPath(CurrentInput, config.OutputDir,
                                    config.InputPath, CurrentPreset,
                                    IsDir(fs, config.InputPath)))
                 IN  IF ShouldSkip(config.Overwrite, Exists(fs, out))
                     THEN FinishFile(Nil, TRUE)
                     ELSE /\ pc' = "mkdir"
                          /\ outputPath' = out
                          /\ UNCHANGED <<results, rows, errors, idx>>
    /\ UNCHANGED <<request, lastCall, entry, config, csvWriter, appleSilicon, ffmpegInstalled, fs,
                   platform, files, lastCheck, runErr>>

\* Lines 147-152: the output's directory is created.
MkdirOutput ==
    /\ pc = "mkdir"
    /\ \E ok \in BOOLEAN :
         IF ~ok
         THEN /\ FinishFile(NewTranscoderError(ErrorTypeFileSystemError,
                                "failed to create output directory",
                                ExecError("mkdir")), TRUE)
              /\ fs' = fs
         ELSE /\ fs' = MkdirAll(fs, Dir(outputPath))
              /\ pc' = "primary"
              /\ UNCHANGED <<results, rows, errors, idx, outputPath>>
    /\ UNCHANGED <<request, lastCall, entry, config, csvWriter, appleSilicon, ffmpegInstalled,
                   platform, files, calls, lastCheck, runErr>>

\* What follows an encode attempt of tier: on success the output is on disk
\* and the file returns nil; on failure the next tier is attempted, or the
\* file returns the final error.
AfterEncode(tier, ok) ==
    IF ok
    THEN fs' = WriteFile(fs, outputPath) /\ FinishFile(Nil, TRUE)
    ELSE IF NextTier(tier, config.NoGPU) = "none"
    THEN fs' = fs /\ FinishFile(EncodingError(tier), TRUE)
    ELSE /\ fs' = fs
         /\ pc' = NextTier(tier, config.NoGPU)
         /\ UNCHANGED <<results, rows, errors, idx, outputPath>>

\* Lines 158-185: the primary attempt, built in hardware mode unless the
\* no-GPU flag is set; its failure goes to handleEncodingError.
PrimaryEncode ==
    /\ pc = "primary"
    /\ \E ok \in BOOLEAN :
         /\ ok => ffmpegInstalled
         /\ calls' = Append(calls,
                Call("primary", PrimaryUseHardware(config),
                     buildFFmpegArgs(CurrentInput, outputPath, CurrentPreset,
                                     PrimaryUseHardware(config), platform,
                                     config.AudioCodec),
                     ok))
         /\ AfterEncode("primary", ok)
    /\ UNCHANGED <<request, lastCall, entry, config, csvWriter, appleSilicon, ffmpegInstalled,
                   platform, files, lastCheck, runErr>>

\* Lines 253-267 and 278-282: the software fallback, the same preset built in
\* software mode.
SoftwareFallback ==
    /\ pc = "software"
    /\ \E ok \in BOOLEAN :
         /\ ok => ffmpegInstalled
         /\ calls' = Append(calls,
                Call("software", FALSE,
                     buildFFmpegArgs(CurrentInput, outputPath, CurrentPreset,
                                     FALSE, platform, config.AudioCodec),
                     ok))
         /\ AfterEncode("software", ok)
    /\ UNCHANGED <<request, lastCall, entry, config, csvWriter, appleSilicon, ffmpegInstalled,
                   platform, files, lastCheck, runErr>>

\* Lines 268-277: the safe fallback.
SafeFallback ==
    /\ pc = "safe"
    /\ \E ok \in BOOLEAN :
         /\ ok => ffmpegInstalled
         /\ calls' = Append(calls,
                Call("safe", FALSE,
                     createSafeFallbackArgs(CurrentInput, outputPath), ok))
         /\ AfterEncode("safe", ok)
    /\ UNCHANGED <<request, lastCall, entry, config, csvWriter, appleSilicon, ffmpegInstalled,
                   platform, files, lastCheck, runErr>>

\* After the last file the batch returns.
EndBatch ==
    /\ pc = "loop"
    /\ idx = Len(files)
    /\ Return(BatchResult(errors))
    /\ UNCHANGED <<request, lastCall, entry, config, csvWriter, appleSilicon, ffmpegInstalled, fs,
                   platform, files, idx, outputPath, calls, results, errors,
                   rows, lastCheck>>

Next ==
    \/ RunStart
    \/ RunPrepare
    \/ RunCheckGPU
    \/ RunFind
    \/ RunCsv
    \/ StartFile
    \/ Probe
    \/ MkdirOutput
    \/ PrimaryEncode
    \/ SoftwareFallback
    \/ SafeFallback
    \/ EndBatch

Spec == Init /\ [][Next]_vars

\* A batch called with the files discovery found below the input root, on a
\* machine that is not Apple Silicon and has ffmpeg.
InitBatch ==
    /\ Init
    /\ entry # "runTranscode"
    /\ config.Recursive
    /\ ~appleSilicon
    /\ ffmpegInstalled

\* The steps of ProcessFiles and ProcessFilesWithProgress.
NextBatch ==
    \/ StartFile
    \/ Probe
    \/ MkdirOutput
    \/ PrimaryEncode
    \/ SoftwareFallback
    \/ SafeFallback
    \/ EndBatch

\* The batch under the assumption that every external process exits and
\* every file system call returns: the sequential code always takes its next
\* step.
FairSpec == InitBatch /\ [][NextBatch]_vars /\ WF_vars(NextBatch)

(***************************************************************************)
(* A platform detector on its own: a SystemChecker from NewSystemChecker,  *)
(* on which the checks are called in any order with any results.           *)
(***************************************************************************)
InitChecker ==
    /\ entry = "SystemChecker"
    /\ config \in {c \in Configs : c.Preset = "1080p_h264" /\ c.GPUIndex = 0
                                    /\ c.Recursive /\ ~c.Overwrite /\ c.NoGPU
                                    /\ ~c.DryRun}
    /\ csvWriter = FALSE
    /\ appleSilicon \in BOOLEAN
    /\ ffmpegInstalled \in BOOLEAN
    /\ fs = {Directory(InputRoot)}
    /\ platform = detectPlatform(appleSilicon)
    /\ pc = "checker"
    /\ files = <<>>
    /\ idx = 0
    /\ outputPath = <<>>
    /\ calls = <<>>
    /\ results = <<>>
    /\ errors = <<>>
    /\ rows = <<>>
    /\ lastCheck = NoCheck
    /\ request = NoRequest
    /\ lastCall = NoCall
    /\ runErr = Nil

\* SystemChecker.CheckGPUAvailability(gpuIndex, verbose)
DoCheckGPU ==
    /\ pc = "checker"
    /\ \E gpuIndex \in (-1)..MaxGPUIndex,
          in \in GPUCheckInputs(platform, ffmpegInstalled, MaxLines) :
         LET r == CheckGPUAvailability(platform, gpuIndex, in.execFailed,
                                       in.output, in.runs)
         IN  /\ lastCheck' = Checked(platform, gpuIndex, in, r.err)
             /\ platform' = r.platform
    /\ UNCHANGED <<request, lastCall, entry, config, csvWriter, appleSilicon, ffmpegInstalled, fs,
                   pc, files, idx, outputPath, calls, results, errors, rows,
                   runErr>>

\* SystemChecker.CheckFFmpegAvailability()
DoCheckFFmpeg ==
    /\ pc = "checker"
    /\ \E failed \in BOOLEAN :
         /\ ~ffmpegInstalled => failed
         /\ lastCheck' = [NoCheck EXCEPT !.op = "CheckFFmpegAvailability",
                                         !.before = platform,
                                         !.execFailed = failed,
                                         !.err = CheckFFmpegAvailability(platform, failed)]
    /\ UNCHANGED <<request, lastCall, entry, config, csvWriter, appleSilicon, ffmpegInstalled, fs,
                   platform, pc, files, idx, outputPath, calls, results, errors,
                   rows, runErr>>

\* SystemChecker.CheckEncoderAvailability(encoder)
DoCheckEncoder ==
    /\ pc = "checker"
    /\ \E encoder \in {"h264_nvenc", "h264_videotoolbox", "libx264"},
          run \in EncoderRuns :
         /\ ~ffmpegInstalled => run.failed
         /\ lastCheck' = [NoCheck EXCEPT !.op = "CheckEncoderAvailability",
                                         !.before = platform,
                                         !.execFailed = run.failed,
                                         !.runs = <<run>>,
                                         !.err = CheckEncoderAvailability(
                                                    encoder, run.failed, run.listed).err]
    /\ UNCHANGED <<request, lastCall, entry, config, csvWriter, appleSilicon, ffmpegInstalled, fs,
                   platform, pc, files, idx, outputPath, calls, results, errors,
                   rows, runErr>>

\* A transcoder that holds the checker builds the arguments of an attempt:
\* buildFFmpegArgs reads the checker's platform through GetPlatform.
DoBuildOnChecker ==
    /\ pc = "checker"
    /\ \E useHardware \in BOOLEAN :
         lastCall' = [NoCall EXCEPT
                        !.op = "buildFFmpegArgs",
                        !.args = <<GhostFile, OutputRoot, CurrentPreset, useHardware,
                                   config.AudioCodec>>,
                        !.env = [platform |-> platform],
                        !.result = buildFFmpegArgs(GhostFile, OutputRoot, CurrentPreset,
                                                   useHardware, platform,
                                                   config.AudioCodec)]
    /\ UNCHANGED <<entry, config, csvWriter, appleSilicon, ffmpegInstalled, fs,
                   platform, pc, files, idx, outputPath, calls, results, errors,
                   rows, lastCheck, request, runErr>>

\* The transcoder's file discovery runs between two checks.
DoFindOnChecker ==
    /\ pc = "checker"
    /\ \E recursive \in BOOLEAN :
         lastCall' = [NoCall EXCEPT
                        !.op = "FindVideoFiles",
                        !.args = <<InputRoot, recursive>>,
                        !.env = [fs |-> fs],
                        !.result = FindVideoFiles(fs, InputRoot, recursive)]
    /\ UNCHANGED <<entry, config, csvWriter, appleSilicon, ffmpegInstalled, fs,
                   platform, pc, files, idx, outputPath, calls, results, errors,
                   rows, lastCheck, request, runErr>>

NextChecker ==
    \/ DoCheckGPU
    \/ DoCheckFFmpeg
    \/ DoCheckEncoder
    \/ DoBuildOnChecker
    \/ DoFindOnChecker

SpecChecker == InitChecker /\ [][NextChecker]_vars

(***************************************************************************)
(* The library functions called on their own: the path helpers, discovery, *)
(* the preset registry and the command builder, each applied to arguments  *)
(* drawn from the sets below, on a disk that changes between the calls.    *)
(***************************************************************************)
\* A name of n characters.
LongName(n) == [i \in 1..n |-> "a"]

\* The disks a library call can meet: nothing at the input root; a regular
\* file there; a directory without videos; a directory with videos, a
\* sub-directory and a directory whose name ends like a video's; a symbolic
\* link to a directory with a video and a sub-directory; and a directory
\* with a sub-directory that cannot be listed, between two videos.
LibDisks ==
    {{},
     {File(InputRoot)},
     {Directory(InputRoot), File(InputRoot \o <<"/", "n", ".", "t", "x", "t">>)},
     {Directory(InputRoot),
      File(InputRoot \o <<"/", "a", ".", "m", "p", "4">>),
      File(InputRoot \o <<"/", "n", ".", "t", "x", "t">>),
      File(InputRoot \o <<"/", "m", "p", "4">>),
      Directory(InputRoot \o <<"/", "s">>),
      File(InputRoot \o <<"/", "s", "/", "c", ".", "A", "V", "I">>),
      Directory(InputRoot \o <<"/", "d", ".", "m", "p", "4">>),
      File(InputRoot \o <<"/", "d", ".", "m", "p", "4", "/", "e", ".", "t", "s">>),
      File(InputRoot \o <<"/", "d", ".", "m", "p", "4", "/", "f", ".", "t", "x", "t">>),
      Special(InputRoot \o <<"/", "p", ".", "m", "k", "v">>),
      Special(InputRoot \o <<"/", "s", "/", "t">>)},
     {[Special(InputRoot) EXCEPT !.link = <<"v">>],
      Directory(<<"v">>),
      File(<<"v", "/", "a", ".", "m", "p", "4">>),
      Directory(<<"v", "/", "s">>),
      File(<<"v", "/", "s", "/", "c", ".", "A", "V", "I">>)},
     {Directory(InputRoot),
      File(InputRoot \o <<"/", "a", ".", "m", "p", "4">>),
      [Directory(InputRoot \o <<"/", "s">>) EXCEPT !.readable = FALSE],
      File(InputRoot \o <<"/", "s", "/", "c", ".", "A", "V", "I">>),
      File(InputRoot \o <<"/", "t", ".", "t", "s">>)}}

\* The record of the requested call, with the same call made before it.
Called(env, result) ==
    [op |-> request.op, args |-> request.args, env |-> env, result |-> result,
     earlier |-> IF lastCall.op = request.op
                 THEN <<[env |-> lastCall.env, result |-> lastCall.result]>>
                 ELSE <<>>]

\* The input paths GenerateOutputPath is called with: a file directly in the
\* root, in a sub-directory and two levels down, names that sanitizing
\* changes, a name without a stem or without an extension, and a name longer
\* than the length limit.
OutputPathInputs ==
    {InputRoot \o <<"/">> \o n :
        n \in {<<"a", ".", "m", "p", "4">>,
               <<"s", "/", "c", ".", "A", "V", "I">>,
               <<"s", "/", "t", "/", "d", ".", "m", "o", "v">>,
               <<"s", "/", "b", "?", ".", "m", "p", "4">>,
               <<"e", ".", ".", "f", ".", "m", "k", "v">>,
               <<".", "m", "p", "4">>,
               <<"n">>,
               <<"s", "/">> \o LongName(MaxFilenameLen + 1) \o <<".", "t", "s">>}}
    \cup {InputRoot}

\* The input roots it is called with.
OutputPathRoots == {InputRoot, InputRoot \o <<"/", "s">>}

\* The output directories it is called with.
OutputDirs == {OutputRoot, OutputRoot \o <<"/", "p">>}

\* The preset names the registry is asked about: the empty name, registered
\* names, and names it does not hold (one differing only in letter case).
PresetQueries ==
    {"", "1080p_h264", "720p_av1", "4k_h265", "480p_h264", "invalid_preset",
     "1080P_H264"}

\* The characters of the names given to SanitizeFilename: a dot, a letter, a
\* character it removes, and a space.
NameAlphabet == {".", "a", ":", " "}

\* The names of at most n characters.
RECURSIVE NamesUpTo(_)
NamesUpTo(n) ==
    IF n = 0 THEN {<<>>}
    ELSE NamesUpTo(n - 1)
         \cup {Append(x, c) : x \in NamesUpTo(n - 1), c \in NameAlphabet}

\* The characters SanitizeFilename removes or replaces, and the dot.
HostileAlphabet == {"<", ">", ":", "\"", "|", "?", "*", "/", "\\", "."}

\* The names of at most n of these characters.
RECURSIVE HostileNames(_)
HostileNames(n) ==
    IF n = 0 THEN {<<>>}
    ELSE HostileNames(n - 1)
         \cup {Append(x, c) : x \in HostileNames(n - 1), c \in HostileAlphabet}

\* The names SanitizeFilename is called with: the short names, each of them
\* behind a prefix that ends two characters before the length limit, and
\* the names of removed and replaced characters, bare and inside a name.
SanitizeInputs ==
    NamesUpTo(MaxName)
    \cup {LongName(MaxFilenameLen - 2) \o x : x \in NamesUpTo(MaxName)}
    \cup HostileNames(MaxHostile)
    \cup {<<"a">> \o x \o <<"b">> : x \in HostileNames(MaxHostile)}

\* The calls a caller makes: a function of the library and its arguments.
Request(op, args) == [op |-> op, args |-> args]

OutputPathRequests ==
    {Request("GenerateOutputPath", <<i, o, b, n>>) :
        i \in OutputPathInputs, o \in OutputDirs, b \in OutputPathRoots,
        n \in {"1080p_h264", "720p_av1"}}

SanitizeRequests == {Request("SanitizeFilename", <<x>>) : x \in SanitizeInputs}

PresetRequests ==
    {Request("IsValidPreset", <<n>>) : n \in PresetQueries}
    \cup {Request("GetAvailablePresets", <<>>)}

PlatformRequests ==
    {Request("GetPresetsForPlatform", <<p>>) :
        p \in {PlatformUnknown, PlatformNVIDIA, PlatformAppleSilicon,
               PlatformSoftware}}

\* The paths ValidateFilePath is called with: a clean base name and one with
\* each reserved character, in a short directory, in a directory whose name
\* holds a reserved character, and in directories that bring the path to the
\* length limit, just above it and far above it.
ValidateInputs ==
    {dir \o <<"/">> \o base :
        dir \in {InputRoot,
                 InputRoot \o <<"/", "q", "?">>,
                 LongName(LongPathLimit - 7),
                 LongName(LongPathLimit - 6),
                 LongName(LongPathLimit + 1)},
        base \in {<<"a", ".", "m", "p", "4">>}
                 \cup {<<"b", c, ".", "m", "p", "4">> : c \in problematicChars}}

ValidateRequests == {Request("ValidateFilePath", <<x>>) : x \in ValidateInputs}

\* The configurations Config.Validate is called on: with and without an input
\* path, an output directory, a negative GPU index, an audio codec and the
\* SkipValidation switch.
ValidateConfigs ==
    [InputPath : {<<>>, InputRoot}, OutputDir : {<<>>, OutputRoot},
     Preset : {"1080p_h264"}, GPUIndex : {-1, 0}, AudioCodec : {"", "copy"},
     Verbose : {FALSE}, Recursive : {FALSE}, Overwrite : {FALSE},
     NoGPU : {FALSE}, DryRun : {FALSE}, SkipValidation : BOOLEAN]

\* The presets buildFFmpegArgs is called with: the presets of both
\* registries, and one bound to no platform.
BuildPresets ==
    {nvencPresets[n] : n \in DOMAIN nvencPresets}
    \cup {appleSiliconPresets[n] : n \in DOMAIN appleSiliconPresets}
    \cup {Preset("custom", "1280x720", "H.264", "libx264", "",
                 <<"-c:v", "libx264", "-crf", "20">>, PlatformUnknown)}

\* buildFFmpegArgs(inputPath, outputPath, preset, useHardware), with the
\* audio codec of the configuration; the input is a file of the input
\* directory or the output path itself.
BuildRequests ==
    {Request("buildFFmpegArgs", <<in, OutputRoot, p, hw, a>>) :
        in \in {GhostFile, OutputRoot},
        p \in BuildPresets, hw \in BOOLEAN, a \in {"", "copy", "aac"}}

\* The presets convertToSoftwarePreset is called with: every preset of both
\* registries, and presets of a caller's own without a scale filter, with a
\* scale flag that has no value, and with two scale filters.
ConvertPresets ==
    {nvencPresets[n] : n \in DOMAIN nvencPresets}
    \cup {appleSiliconPresets[n] : n \in DOMAIN appleSiliconPresets}
    \cup {Preset("custom", "1280x720", "H.264", "libx264", "", a, PlatformUnknown) :
            a \in {<<"-c:v", "libx264", "-crf", "20">>,
                   <<"-c:v", "libx264", "-vf">>,
                   <<"-vf", "scale=640:360", "-vf", "scale=320:180">>}}

ConvertRequests ==
    {Request("convertToSoftwarePreset", <<p>>) : p \in ConvertPresets}

\* The paths FindVideoFiles is called with: the input root, a video and
\* another file in it, a sub-directory, a directory named like a video, a
\* special entry named like a video, and a path that names nothing.
FindInputs ==
    {InputRoot, GhostFile,
     InputRoot \o <<"/", "a", ".", "m", "p", "4">>,
     InputRoot \o <<"/", "n", ".", "t", "x", "t">>,
     InputRoot \o <<"/", "s">>,
     InputRoot \o <<"/", "s", "/", "c", ".", "A", "V", "I">>,
     InputRoot \o <<"/", "d", ".", "m", "p", "4">>,
     InputRoot \o <<"/", "p", ".", "m", "k", "v">>}

FindRequests ==
    {Request("FindVideoFiles", <<x, r>>) : x \in FindInputs, r \in BOOLEAN}

\* The platform values a system checker can hold on a machine: Apple Silicon
\* there; elsewhere Unknown from detection, then what a GPU check leaves.
PlatformsOn(isApple) ==
    IF isApple THEN {PlatformAppleSilicon}
    ELSE {PlatformUnknown, PlatformNVIDIA, PlatformSoftware}

\* A caller is about to make one of the calls, on one of the disks, on a
\* machine of either kind.
InitLibrary ==
    /\ entry = "library"
    /\ config \in {c \in Configs : c.Preset = "1080p_h264" /\ c.GPUIndex = 0
                                    /\ c.Recursive /\ ~c.Overwrite /\ c.NoGPU
                                    /\ ~c.DryRun}
    /\ csvWriter = FALSE
    /\ appleSilicon \in BOOLEAN
    /\ ffmpegInstalled = TRUE
    /\ fs \in LibDisks
    /\ pc = "library"
    /\ files = <<>>
    /\ idx = 0
    /\ outputPath = <<>>
    /\ calls = <<>>
    /\ results = <<>>
    /\ errors = <<>>
    /\ rows = <<>>
    /\ lastCheck = NoCheck
    /\ \/ request \in OutputPathRequests
       \/ request \in SanitizeRequests
       \/ request \in PresetRequests
       \/ request \in PlatformRequests
       \/ request \in ValidateRequests
       \/ request \in {Request("Validate", <<c>>) : c \in ValidateConfigs}
       \/ request \in BuildRequests
       \/ request \in FindRequests
       \/ request \in ConvertRequests
    /\ platform \in IF request.op = "buildFFmpegArgs"
                    THEN PlatformsOn(appleSilicon)
                    ELSE {detectPlatform(appleSilicon)}
    /\ lastCall = NoCall
    /\ runErr = Nil

\* Another process changes the disk between two calls.
DiskChanges ==
    /\ pc = "library"
    /\ fs' \in LibDisks \ {fs}
    /\ UNCHANGED <<entry, config, csvWriter, appleSilicon, ffmpegInstalled,
                   platform, pc, files, idx, outputPath, calls, results, errors,
                   rows, lastCheck, request, lastCall, runErr>>

\* PathUtils.GenerateOutputPath(inputPath, outputDir, inputBasePath, preset),
\* with what os.Stat reports of inputBasePath at the time of the call.
DoGenerateOutputPath ==
    /\ pc = "library"
    /\ request.op = "GenerateOutputPath"
    /\ LET baseIsDir == IsDir(fs, request.args[3])
       IN  lastCall' = Called([baseIsDir |-> baseIsDir],
                              GenerateOutputPath(request.args[1], request.args[2],
                                                 request.args[3],
                                                 GetPresets(appleSilicon)[request.args[4]],
                                                 baseIsDir))
    /\ UNCHANGED <<entry, config, csvWriter, appleSilicon, ffmpegInstalled, fs,
                   platform, pc, files, idx, outputPath, calls, results, errors,
                   rows, lastCheck, request, runErr>>

\* PathUtils.SanitizeFilename(filename)
DoSanitizeFilename ==
    /\ pc = "library"
    /\ request.op = "SanitizeFilename"
    /\ lastCall' = Called(<<>>, SanitizeFilename(request.args[1]))
    /\ UNCHANGED <<entry, config, csvWriter, appleSilicon, ffmpegInstalled, fs,
                   platform, pc, files, idx, outputPath, calls, results, errors,
                   rows, lastCheck, request, runErr>>

\* IsValidPreset(preset)
DoIsValidPreset ==
    /\ pc = "library"
    /\ request.op = "IsValidPreset"
    /\ lastCall' = Called(<<>>, IsValidPreset(appleSilicon, request.args[1]))
    /\ UNCHANGED <<entry, config, csvWriter, appleSilicon, ffmpegInstalled, fs,
                   platform, pc, files, idx, outputPath, calls, results, errors,
                   rows, lastCheck, request, runErr>>

\* GetAvailablePresets()
DoGetAvailablePresets ==
    /\ pc = "library"
    /\ request.op = "GetAvailablePresets"
    /\ lastCall' = Called(<<>>, GetAvailablePresets(appleSilicon))
    /\ UNCHANGED <<entry, config, csvWriter, appleSilicon, ffmpegInstalled, fs,
                   platform, pc, files, idx, outputPath, calls, results, errors,
                   rows, lastCheck, request, runErr>>

\* GetPresetsForPlatform(platform)
DoGetPresetsForPlatform ==
    /\ pc = "library"
    /\ request.op = "GetPresetsForPlatform"
    /\ lastCall' = Called(<<>>, GetPresetsForPlatform(appleSilicon, request.args[1]))
    /\ UNCHANGED <<entry, config, csvWriter, appleSilicon, ffmpegInstalled, fs,
                   platform, pc, files, idx, outputPath, calls, results, errors,
                   rows, lastCheck, request, runErr>>

\* ValidateFilePath(path)
DoValidateFilePath ==
    /\ pc = "library"
    /\ request.op = "ValidateFilePath"
    /\ lastCall' = Called(<<>>, ValidateFilePath(request.args[1]))
    /\ UNCHANGED <<entry, config, csvWriter, appleSilicon, ffmpegInstalled, fs,
                   platform, pc, files, idx, outputPath, calls, results, errors,
                   rows, lastCheck, request, runErr>>

\* Config.Validate(): the result holds the receiver after the call and the
\* error returned.
DoValidate ==
    /\ pc = "library"
    /\ request.op = "Validate"
    /\ lastCall' = Called(<<>>, Validate(request.args[1]))
    /\ UNCHANGED <<entry, config, csvWriter, appleSilicon, ffmpegInstalled, fs,
                   platform, pc, files, idx, outputPath, calls, results, errors,
                   rows, lastCheck, request, runErr>>

\* Transcoder.buildFFmpegArgs(inputPath, outputPath, preset, useHardware)
DoBuildFFmpegArgs ==
    /\ pc = "library"
    /\ request.op = "buildFFmpegArgs"
    /\ lastCall' = Called([platform |-> platform],
                          buildFFmpegArgs(request.args[1], request.args[2],
                                          request.args[3], request.args[4],
                                          platform, request.args[5]))
    /\ UNCHANGED <<entry, config, csvWriter, appleSilicon, ffmpegInstalled, fs,
                   platform, pc, files, idx, outputPath, calls, results, errors,
                   rows, lastCheck, request, runErr>>

\* FileDiscovery.FindVideoFiles(inputPath, recursive), on the disk as it is
\* at the time of the call.
DoFindVideoFiles ==
    /\ pc = "library"
    /\ request.op = "FindVideoFiles"
    /\ lastCall' = Called([fs |-> fs],
                          FindVideoFiles(fs, request.args[1], request.args[2]))
    /\ UNCHANGED <<entry, config, csvWriter, appleSilicon, ffmpegInstalled, fs,
                   platform, pc, files, idx, outputPath, calls, results, errors,
                   rows, lastCheck, request, runErr>>

\* Transcoder.convertToSoftwarePreset(preset)
DoConvertToSoftwarePreset ==
    /\ pc = "library"
    /\ request.op = "convertToSoftwarePreset"
    /\ lastCall' = Called(<<>>, convertToSoftwarePreset(request.args[1]))
    /\ UNCHANGED <<entry, config, csvWriter, appleSilicon, ffmpegInstalled, fs,
                   platform, pc, files, idx, outputPath, calls, results, errors,
                   rows, lastCheck, request, runErr>>

NextLibrary ==
    \/ DiskChanges
    \/ DoGenerateOutputPath
    \/ DoSanitizeFilename
    \/ DoIsValidPreset
    \/ DoGetAvailablePresets
    \/ DoGetPresetsForPlatform
    \/ DoValidateFilePath
    \/ DoValidate
    \/ DoBuildFFmpegArgs
    \/ DoFindVideoFiles
    \/ DoConvertToSoftwarePreset

SpecLibrary == InitLibrary /\ [][NextLibrary]_vars

(***************************************************************************)
(* Properties.                                                             *)
(***************************************************************************)
\* The position of a file in the list (the paths of a list are distinct).
FileIndex(f) == CHOOSE i \in 1..Len(files) : files[i] = f

\* The invocations launched for a file, in order.
CallsOf(f) == SelectSeq(calls, LAMBDA c : c.file = f)

\* The encode invocations launched for a file, in order.
EncodesOf(f) == SelectSeq(calls, LAMBDA c : c.file = f /\ c.tier # "probe")

\* The output path per-file processing computes for a file.
ExpectedOutput(f) ==
    SanitizeWindowsPath(
        GenerateOutputPath(SanitizeWindowsPath(f), config.OutputDir,
                           config.InputPath, CurrentPreset,
                           IsDir(fs, config.InputPath)))

\* The command of a file built by buildFFmpegArgs in the given mode.
BuiltCommand(f, useHardware) ==
    buildFFmpegArgs(SanitizeWindowsPath(f), ExpectedOutput(f), CurrentPreset,
                    useHardware, platform, config.AudioCodec)

\* The safe-fallback command of a file.
SafeCommand(f) == createSafeFallbackArgs(SanitizeWindowsPath(f), ExpectedOutput(f))

\* The number of files whose processing returned an error.
FailedCount == Cardinality({i \in 1..Len(results) : results[i] # Nil})

\* The batch has returned (runTranscode returns nil or the aggregate error
\* only from the batch).
BatchReturned ==
    /\ pc = "done"
    /\ entry = "runTranscode" =>
         runErr.Message \in {"", "transcoding completed with errors"}

\* C1: with the no-hardware flag unset, the first encode invocation of a file
\* follows its passing probe and is the hardware-mode command; a failed
\* hardware attempt is followed at once by the software-mode command of the
\* same file and preset, a failed software attempt by the safe-fallback
\* command; software and safe are launched only after such a failure; no tier
\* runs twice for a file, and after a success or after the safe tier the next
\* invocation, if any, is the probe of another file.
C1_FallbackChain ==
    ~config.NoGPU =>
      \A k \in 1..Len(calls) :
        LET c == calls[k]
            last == k = Len(calls)
        IN  /\ c.tier = "primary" =>
                 /\ c.args = BuiltCommand(c.file, TRUE)
                 /\ k > 1 /\ calls[k - 1].tier = "probe"
                 /\ calls[k - 1].file = c.file /\ calls[k - 1].ok
            /\ c.tier = "software" =>
                 /\ c.args = BuiltCommand(c.file, FALSE)
                 /\ k > 1 /\ calls[k - 1].tier = "primary"
                 /\ calls[k - 1].file = c.file /\ ~calls[k - 1].ok
            /\ c.tier = "safe" =>
                 /\ c.args = SafeCommand(c.file)
                 /\ k > 1 /\ calls[k - 1].tier = "software"
                 /\ calls[k - 1].file = c.file /\ ~calls[k - 1].ok
            /\ (c.tier = "primary" /\ ~c.ok) =>
                 IF last THEN pc = "software"
                 ELSE calls[k + 1].tier = "software" /\ calls[k + 1].file = c.file
            /\ (c.tier = "software" /\ ~c.ok) =>
                 IF last THEN pc = "safe"
                 ELSE calls[k + 1].tier = "safe" /\ calls[k + 1].file = c.file
            /\ (c.tier # "probe" /\ (c.ok \/ c.tier = "safe")) =>
                 /\ pc \notin {"software", "safe"} \/ ~last
                 /\ ~last => calls[k + 1].tier = "probe" /\ calls[k + 1].file # c.file
            /\ \A j \in 1..Len(calls) :
                 (j # k /\ calls[j].file = c.file) => calls[j].tier # c.tier

\* Witness of C1: on a vendor-GPU platform all three tiers have run for a
\* file, the safe tier with success.
C1_Witness ==
    /\ ~config.NoGPU
    /\ platform = PlatformNVIDIA
    /\ \E k \in 1..Len(calls) : calls[k].tier = "safe" /\ calls[k].ok

\* C2: with the no-hardware flag set, a file gets at most one encode
\* invocation, built in software mode; when it fails the file's processing
\* returns EncodingFailed, and no software-fallback or safe-fallback
\* invocation is ever launched.
C2_NoGPUSingleAttempt ==
    config.NoGPU =>
      \A k \in 1..Len(calls) :
        LET c == calls[k]
        IN  /\ c.tier \in {"probe", "primary"}
            /\ c.tier = "primary" =>
                 /\ ~c.useHardware
                 /\ c.args = BuiltCommand(c.file, FALSE)
                 /\ Len(EncodesOf(c.file)) = 1
                 /\ ~c.ok =>
                      /\ FileIndex(c.file) <= Len(results)
                      /\ IsTranscoderError(results[FileIndex(c.file)],
                                           ErrorTypeEncodingFailed)
                      /\ pc \notin {"software", "safe"}

\* Witness of C2: in software-only mode on a vendor-GPU platform a file's
\* single attempt has failed and the batch has returned.
C2_Witness ==
    /\ config.NoGPU
    /\ platform = PlatformNVIDIA
    /\ pc = "done"
    /\ \E k \in 1..Len(calls) : calls[k].tier = "primary" /\ ~calls[k].ok

\* C3: the batch works through the list in order, one result per file; it
\* returns only after all N files, and it returns an error exactly when at
\* least one file's processing returned an error.
C3_BatchAggregate ==
    /\ Len(results) = idx
    /\ idx <= Len(files)
    /\ \A k \in 1..Len(calls) :
         /\ FileIndex(calls[k].file) <= idx + 1
         /\ \A j \in 1..k : FileIndex(calls[j].file) <= FileIndex(calls[k].file)
    /\ BatchReturned =>
         /\ idx = Len(files)
         /\ (runErr # Nil) <=> (FailedCount > 0)

\* Witness of C3: a batch of two files has returned, the first file failed
\* and the second succeeded after it.
C3_Witness ==
    /\ BatchReturned
    /\ Len(files) = 2
    /\ results[1] # Nil
    /\ results[2] = Nil
    /\ \E k \in 1..Len(calls) : calls[k].file = files[2] /\ calls[k].tier # "probe"

\* C4 as claimed: with the dry-run flag a transcode run launches no encode
\* invocation and does not get as far as creating a file's output directory.
C4_DryRunTranscodesNothing ==
    (entry = "runTranscode" /\ config.DryRun) =>
      /\ \A k \in 1..Len(calls) : calls[k].tier = "probe"
      /\ pc \notin {"primary", "software", "safe"}

\* A finished file that returned nil without any encode invocation: it was
\* skipped.
Skipped(i) ==
    /\ i <= Len(results)
    /\ results[i] = Nil
    /\ Len(CallsOf(files[i])) = 1
    /\ CallsOf(files[i])[1].tier = "probe"
    /\ CallsOf(files[i])[1].ok

\* C5: when per-file processing reaches the output check (its probe has
\* passed) with overwrite disabled and the computed output path on disk, it
\* ends there: it returns nil, nothing is added to the batch's errors, nothing
\* is written and no encode invocation exists for the file; in every other
\* case, in particular with overwrite enabled, it goes on to create the
\* output directory. A file is only ever skipped with overwrite disabled and
\* its output on disk.
C5_SkipPolicy ==
    /\ [](\A i \in 1..Len(results) :
            Skipped(i) => ~config.Overwrite /\ Exists(fs, ExpectedOutput(files[i])))
    /\ [][(pc = "probe" /\ Len(calls') = Len(calls) + 1 /\ calls'[Len(calls')].ok) =>
            IF ~config.Overwrite /\ Exists(fs, ExpectedOutput(CurrentFile))
            THEN /\ pc' = "loop"
                 /\ idx' = idx + 1
                 /\ results' = Append(results, Nil)
                 /\ errors' = errors
                 /\ fs' = fs
                 /\ \A k \in 1..Len(calls') :
                      calls'[k].file = CurrentFile => calls'[k].tier = "probe"
            ELSE /\ pc' = "mkdir"
                 /\ idx' = idx
                 /\ results' = results]_vars

\* Witness of C5: the second file of a batch was skipped after the first one
\* had been encoded, and the batch returned no error.
C5_Witness ==
    /\ pc = "done"
    /\ Len(files) = 2
    /\ Skipped(2)
    /\ ~Skipped(1)
    /\ runErr = Nil

\* C6: every encode invocation of a file comes after a passing probe of that
\* file; a failed probe is the file's only invocation, and the file's
\* processing returned an error that the batch counts.
C6_ProbeFirst ==
    \A k \in 1..Len(calls) :
      LET c == calls[k]
      IN  /\ c.tier # "probe" =>
               \E j \in 1..(k - 1) :
                 calls[j].tier = "probe" /\ calls[j].file = c.file /\ calls[j].ok
          /\ (c.tier = "probe" /\ ~c.ok) =>
               /\ Len(CallsOf(c.file)) = 1
               /\ FileIndex(c.file) <= Len(results)
               /\ results[FileIndex(c.file)] # Nil
               /\ results[FileIndex(c.file)] \in Range(errors)
               /\ BatchReturned => runErr # Nil

\* Witness of C6: with ffmpeg installed, the probe of the first file failed
\* and a later file was encoded.
C6_Witness ==
    /\ ffmpegInstalled
    /\ Len(calls) >= 3
    /\ calls[1].tier = "probe" /\ ~calls[1].ok
    /\ calls[3].tier = "primary" /\ calls[3].ok

\* C7 as claimed: when the last tier attempted for a file has failed, the
\* file's processing returned an EncodingFailed error whose text includes what
\* that tier's process wrote to its error stream.
C7_ErrorCarriesDiagnostics ==
    \A i \in 1..Len(results) :
      LET cs == CallsOf(files[i])
      IN  (Len(cs) > 0 /\ cs[Len(cs)].tier # "probe" /\ ~cs[Len(cs)].ok) =>
            /\ IsTranscoderError(results[i], ErrorTypeEncodingFailed)
            /\ Stderr(cs[Len(cs)].tier) \in ErrorText(results[i])

\* C8 as claimed: with a preset name the registry does not hold, the run ends
\* with an InvalidPreset error and no file has been processed: no invocation,
\* no per-file result, no analytics row.
C8_AbortedWithInvalidPreset ==
    (config.Preset \notin GetAvailablePresets(appleSilicon) /\ pc = "done") =>
      /\ IsTranscoderError(runErr, ErrorTypeInvalidPreset)
      /\ calls = <<>>
      /\ results = <<>>
      /\ rows = <<>>

\* C8 as amended: with a preset name the registry does not hold, no probe or
\* encode invocation is launched and no output path is computed or created
\* for any file. runTranscode ends before file discovery with a plain error
\* (not a tagged InvalidPreset), unless creating the output directory failed
\* first. A batch called directly visits every file; each file's processing
\* returns InvalidPreset (or FileSystemError when the analytics step cannot
\* stat the file), every visited file with a row gets an "error" row, and the
\* batch returns the aggregate error when the list is not empty.
C8_InvalidPresetLaunchesNothing ==
    config.Preset \notin GetAvailablePresets(appleSilicon) =>
      /\ calls = <<>>
      /\ outputPath = <<>>
      /\ pc \notin {"probe", "mkdir", "primary", "software", "safe"}
      /\ entry = "runTranscode" =>
           /\ files = <<>> /\ results = <<>> /\ rows = <<>>
           /\ pc \in {"start", "rt_mkdir", "done"}
           /\ lastCheck = NoCheck
           /\ pc = "done" =>
                /\ runErr.kind = "errorString"
                /\ runErr.Message \in {"invalid preset",
                                       "failed to create output directory"}
      /\ entry # "runTranscode" =>
           /\ \A i \in 1..Len(results) :
                \/ IsTranscoderError(results[i], ErrorTypeInvalidPreset)
                \/ /\ IsTranscoderError(results[i], ErrorTypeFileSystemError)
                   /\ entry = "ProcessFilesWithProgress"
                   /\ ~Exists(fs, files[i])
           /\ \A r \in 1..Len(rows) : rows[r].status = "error"
           /\ pc = "done" =>
                /\ Len(results) = Len(files)
                /\ (runErr = Nil) <=> (files = <<>>)
                /\ runErr # Nil => runErr.Message = "transcoding completed with errors"

\* Witness of C8: runTranscode has ended on the invalid preset, and (in
\* another run) a direct batch with a sink has written an error row.
C8_Witness ==
    /\ config.Preset \notin GetAvailablePresets(appleSilicon)
    /\ pc = "done"
    /\ \/ entry = "runTranscode" /\ runErr.Message = "invalid preset"
       \/ entry = "ProcessFilesWithProgress" /\ Len(rows) = 2

\* C9 as claimed: in a transcode run an unavailable ffmpeg or a failed GPU
\* check ends the run with that error before any file is touched: nothing
\* discovered, no invocation for a file, nothing created on disk.
C9_CapabilityFailureEndsRun ==
    entry = "runTranscode" =>
      /\ ~ffmpegInstalled =>
           /\ calls = <<>>
           /\ files = <<>>
           /\ pc = "done" /\ runErr.Message \notin
                {"failed to create output directory", "invalid preset"}
                => IsTranscoderError(runErr, ErrorTypeFFmpegNotFound)
                   \/ IsTranscoderError(runErr, ErrorTypeGPUNotAvailable)
      /\ lastCheck.err # Nil =>
           /\ pc = "done" /\ runErr = lastCheck.err
           /\ IsTranscoderError(runErr, ErrorTypeGPUNotAvailable)
           /\ files = <<>> /\ calls = <<>>
           /\ ~Exists(fs, config.OutputDir)

\* The devices a listing names: its lines of the form "GPU <n>...".
ListedDevices(output) ==
    Cardinality({i \in 1..Len(SplitLines(output)) :
                    HasPrefix(SplitLines(output)[i], <<"G", "P", "U", " ">>)})

\* C10: off Apple Silicon, CheckGPUAvailability returns nil exactly when the
\* listing command succeeded, listed at least one device and the index is
\* below the device count; every error is GPUNotAvailable; after a success
\* the platform is the vendor-GPU value, after a failed or empty listing it
\* is SoftwareOnly.
C10_GPUCheck ==
    (lastCheck.op = "CheckGPUAvailability"
     /\ lastCheck.before # PlatformAppleSilicon) =>
      LET n == ListedDevices(lastCheck.output)
      IN  /\ (lastCheck.err = Nil) <=>
                (~lastCheck.execFailed /\ n >= 1 /\ lastCheck.gpuIndex < n)
          /\ lastCheck.err # Nil =>
                IsTranscoderError(lastCheck.err, ErrorTypeGPUNotAvailable)
          /\ lastCheck.err = Nil => platform = PlatformNVIDIA
          /\ (lastCheck.execFailed \/ n = 0) => platform = PlatformSoftware

\* Witness of C10: a check with index 1 has succeeded on a listing of two
\* devices, on a checker whose platform an earlier failure had downgraded.
C10_Witness ==
    /\ lastCheck.op = "CheckGPUAvailability"
    /\ lastCheck.before = PlatformSoftware
    /\ lastCheck.err = Nil
    /\ lastCheck.gpuIndex = 1
    /\ ListedDevices(lastCheck.output) = 2

\* The base name of a path without its extension: its last element up to
\* that element's last dot.
StemOf(path) ==
    LET elem == SubSeq(path, LastIndex(path, "/") + 1, Len(path))
        dot == LastIndex(elem, ".")
    IN  IF dot = 0 THEN elem ELSE SubSeq(elem, 1, dot - 1)

\* The path lies below the directory root.
Below(path, root) == HasPrefix(path, root \o <<"/">>)

\* For a path below root: the directories between root and the file, empty
\* for a file directly in root.
SubDirOf(path, root) == SubSeq(path, Len(root) + 2, LastIndex(path, "/") - 1)

\* The path the claim C11 gives a call: outputDir/sub-directory/file name
\* when the input root is a directory and the file lies in a sub-directory
\* of it, and outputDir/file name otherwise, the file name being
\* SanitizeFilename(stem of the input name), "_", the preset name and ".mkv".
ClaimedOutputPath(call) ==
    LET inputPath == call.args[1]
        outputDir == call.args[2]
        root == call.args[3]
        fileName == SanitizeFilename(StemOf(inputPath)) \o <<"_">>
                    \o NameChars(call.args[4]) \o <<".", "m", "k", "v">>
    IN  IF /\ call.env.baseIsDir
           /\ Below(inputPath, root)
           /\ SubDirOf(inputPath, root) # <<>>
        THEN outputDir \o <<"/">> \o SubDirOf(inputPath, root) \o <<"/">> \o fileName
        ELSE outputDir \o <<"/">> \o fileName

\* C11: for every input file and preset the output file name is
\* SanitizeFilename(stem of the input name), "_", the preset name and ".mkv";
\* the output path is outputDir/sub-directory/file name when the input root
\* is a directory and the file lies in a sub-directory of it, and
\* outputDir/file name otherwise.
C11_OutputPathNaming ==
    lastCall.op = "GenerateOutputPath" => lastCall.result = ClaimedOutputPath(lastCall)

\* The part of C11 that holds: the path is the claimed one for an input that
\* lies below the input root, or is the input root when that is no directory.
C11_NamingBelowRoot ==
    (/\ lastCall.op = "GenerateOutputPath"
     /\ \/ lastCall.args[1] = lastCall.args[3] /\ ~lastCall.env.baseIsDir
        \/ Below(lastCall.args[1], lastCall.args[3]))
    => lastCall.result = ClaimedOutputPath(lastCall)

\* For an input outside a directory given as input root, the path leaves the
\* output directory: it is the file name, with ".." elements in front when
\* the root lies deeper than the output directory.
C11_EscapesOutputDir ==
    (/\ lastCall.op = "GenerateOutputPath"
     /\ lastCall.env.baseIsDir
     /\ lastCall.args[1] # lastCall.args[3]
     /\ ~Below(lastCall.args[1], lastCall.args[3]))
    => ~HasPrefix(lastCall.result, lastCall.args[2] \o <<"/">>)

\* A path of a file two directories below the input root has been generated,
\* with the root a directory.
C11_Witness ==
    /\ lastCall.op = "GenerateOutputPath"
    /\ lastCall.args[1] = InputRoot \o <<"/", "s", "/", "t", "/", "d", ".", "m", "o", "v">>
    /\ lastCall.args[3] = InputRoot
    /\ lastCall.env.baseIsDir
    /\ Contains(lastCall.result, <<"/", "s", "/", "t", "/", "d", "_">>)

\* A path has been generated for a file outside the directory given as input
\* root.
C11_WitnessOutside ==
    /\ lastCall.op = "GenerateOutputPath"
    /\ lastCall.args[1] = InputRoot \o <<"/", "a", ".", "m", "p", "4">>
    /\ lastCall.args[3] = InputRoot \o <<"/", "s">>
    /\ lastCall.env.baseIsDir
    /\ lastCall.result = <<"a", "_">> \o NameChars(lastCall.args[4])
                         \o <<".", "m", "k", "v">>

\* C12 as claimed: two calls of GenerateOutputPath with the same four
\* arguments return the same path, whatever the disk holds at the input root
\* at each call.
C12_SameArgumentsSamePath ==
    lastCall.op = "GenerateOutputPath" =>
      \A i \in 1..Len(lastCall.earlier) : lastCall.earlier[i].result = lastCall.result

\* C12 as amended: two calls of GenerateOutputPath with the same four
\* arguments return the same path when the input root is a directory at both
\* calls or at neither; and for a file directly in the input root they return
\* the same path whatever the disk holds at the input root.
C12_SamePathGivenRootKind ==
    lastCall.op = "GenerateOutputPath" =>
      \A i \in 1..Len(lastCall.earlier) :
        /\ lastCall.earlier[i].env = lastCall.env =>
             lastCall.earlier[i].result = lastCall.result
        /\ (Below(lastCall.args[1], lastCall.args[3])
            /\ SubDirOf(lastCall.args[1], lastCall.args[3]) = <<>>) =>
             lastCall.earlier[i].result = lastCall.result

\* Witness of C12: a second call with the same arguments, for a file directly
\* in the input root, after the disk at the input root has changed from a
\* directory to something else or back.
C12_Witness ==
    /\ lastCall.op = "GenerateOutputPath"
    /\ Len(lastCall.earlier) = 1
    /\ lastCall.earlier[1].env # lastCall.env
    /\ lastCall.args[1] = InputRoot \o <<"/", "a", ".", "m", "p", "4">>
    /\ lastCall.args[3] = InputRoot

\* The seven canonical preset names.
CanonicalNames ==
    {"720p_av1", "1080p_av1", "720p_h264", "1080p_h264", "1080p_h265",
     "4k_av1", "4k_h265"}

\* C13 as claimed: GetPresetsForPlatform(P) holds only presets bound to P, and
\* for each hardware platform P (vendor GPU, Apple Silicon) the names it
\* exposes are the canonical set.
C13_CanonicalNamesForEveryHardwarePlatform ==
    lastCall.op = "GetPresetsForPlatform" =>
      /\ \A n \in DOMAIN lastCall.result : lastCall.result[n].Platform = lastCall.args[1]
      /\ lastCall.args[1] \in {PlatformNVIDIA, PlatformAppleSilicon} =>
           DOMAIN lastCall.result = CanonicalNames

\* What the code does: GetPresetsForPlatform(P) holds only presets bound to
\* P, each under its own name. It filters the registry of the machine it
\* runs on: on Apple Silicon it exposes the seven canonical names for P = Apple
\* Silicon and nothing for any other P; elsewhere it exposes the seven
\* canonical names for P = vendor GPU and nothing for any other P.
C13_PresetsForPlatform ==
    lastCall.op = "GetPresetsForPlatform" =>
      /\ \A n \in DOMAIN lastCall.result :
           /\ lastCall.result[n].Platform = lastCall.args[1]
           /\ lastCall.result[n].Name = n
      /\ DOMAIN lastCall.result =
           IF lastCall.args[1] =
                (IF appleSilicon THEN PlatformAppleSilicon ELSE PlatformNVIDIA)
           THEN CanonicalNames
           ELSE {}

\* Off Apple Silicon, the presets of the Apple Silicon platform have been
\* asked for, and none was returned.
C13_Witness ==
    /\ lastCall.op = "GetPresetsForPlatform"
    /\ ~appleSilicon
    /\ lastCall.args[1] = PlatformAppleSilicon
    /\ lastCall.result = <<>>

\* C14: IsValidPreset(name) is true exactly for the keys of the registry,
\* which are the seven canonical names on either kind of machine (so false
\* for the empty name and for a name that is not registered), and
\* GetAvailablePresets returns exactly those keys.
C14_ValidPresetNames ==
    /\ lastCall.op = "IsValidPreset" =>
         /\ lastCall.result <=> lastCall.args[1] \in DOMAIN GetPresets(appleSilicon)
         /\ lastCall.result <=> lastCall.args[1] \in CanonicalNames
         /\ lastCall.args[1] = "" => ~lastCall.result
    /\ lastCall.op = "GetAvailablePresets" =>
         /\ lastCall.result = DOMAIN GetPresets(appleSilicon)
         /\ lastCall.result # {}
         /\ CanonicalNames \subseteq lastCall.result
         /\ \A n \in PresetQueries :
              n \in lastCall.result <=> IsValidPreset(appleSilicon, n)

\* Witness of C14: a name that differs from a registered one only in letter
\* case has been refused.
C14_Witness ==
    /\ lastCall.op = "IsValidPreset"
    /\ lastCall.args[1] = "1080P_H264"
    /\ ~lastCall.result

\* C15: SanitizeFilename applied to its own result returns that result.
C15_SanitizeIdempotent ==
    lastCall.op = "SanitizeFilename" =>
      SanitizeFilename(lastCall.result) = lastCall.result

\* Witness of C15: a name longer than the length limit, in which removing a
\* character brings two dots together, has been sanitized.
C15_Witness ==
    /\ lastCall.op = "SanitizeFilename"
    /\ Len(lastCall.args[1]) > MaxFilenameLen
    /\ Contains(lastCall.args[1], <<".", ":", ".">>)
    /\ Contains(lastCall.result, <<"_">>)

\* The length of the run of dots that s starts with.
LeadingDots(s) ==
    LET other == {i \in 1..Len(s) : s[i] # "."}
    IN  IF other = {} THEN Len(s)
        ELSE (CHOOSE i \in other : \A j \in other : i <= j) - 1

\* The length of the dot-free stretch that s starts with.
LeadingPlain(s) ==
    LET dots == {i \in 1..Len(s) : s[i] = "."}
    IN  IF dots = {} THEN Len(s)
        ELSE (CHOOSE i \in dots : \A j \in dots : i <= j) - 1

\* s with every maximal run of two or more dots replaced by one underscore.
RECURSIVE RunsToOneUnderscore(_)
RunsToOneUnderscore(s) ==
    IF Len(s) = 0 THEN <<>>
    ELSE IF s[1] # "."
    THEN Take(s, LeadingPlain(s)) \o RunsToOneUnderscore(Drop(s, LeadingPlain(s)))
    ELSE (IF LeadingDots(s) >= 2 THEN <<"_">> ELSE <<".">>)
         \o RunsToOneUnderscore(Drop(s, LeadingDots(s)))

\* s with every maximal run of n dots replaced by n div 2 underscores
\* followed by n mod 2 dots.
RECURSIVE RunsPairedOff(_)
RunsPairedOff(s) ==
    IF Len(s) = 0 THEN <<>>
    ELSE IF s[1] # "."
    THEN Take(s, LeadingPlain(s)) \o RunsPairedOff(Drop(s, LeadingPlain(s)))
    ELSE [i \in 1..(LeadingDots(s) \div 2) |-> "_"]
         \o [i \in 1..(LeadingDots(s) % 2) |-> "."]
         \o RunsPairedOff(Drop(s, LeadingDots(s)))

\* The name holds none of the characters SanitizeFilename removes or
\* replaces, and is no longer than the length limit.
PlainName(s) ==
    /\ Len(s) <= MaxFilenameLen
    /\ \A i \in 1..Len(s) : s[i] \notin {"<", ">", ":", "\"", "|", "?", "*", "/", "\\"}

\* C16 as claimed: in a name of plain characters and dots, every maximal run
\* of two or more dots comes out as exactly one underscore and no dot (what
\* is left then loses its trailing dots and spaces).
C16_RunBecomesOneUnderscore ==
    (lastCall.op = "SanitizeFilename" /\ PlainName(lastCall.args[1])) =>
      lastCall.result = TrimRight(RunsToOneUnderscore(lastCall.args[1]), {".", " "})

\* C16 as amended: in a name of plain characters and dots, no longer than the
\* length limit, every maximal run of n dots comes out as n div 2 underscores
\* followed by n mod 2 dots: a run of two as one underscore, a run of three
\* as an underscore and a dot, a run of four as two underscores (what is
\* left then loses its trailing dots and spaces). The result never holds two
\* dots in a row.
C16_RunsPairedOff ==
    lastCall.op = "SanitizeFilename" =>
      /\ ~Contains(lastCall.result, <<".", ".">>)
      /\ PlainName(lastCall.args[1]) =>
           lastCall.result = TrimRight(RunsPairedOff(lastCall.args[1]), {".", " "})

\* Witness of C16: a name with a run of three dots inside has come out with
\* an underscore and a dot in its place.
C16_Witness ==
    /\ lastCall.op = "SanitizeFilename"
    /\ lastCall.args[1] = <<"a", ".", ".", ".", "a">>
    /\ lastCall.result = <<"a", "_", ".", "a">>

\* The last element of a path.
LastElement(path) == SubSeq(path, LastIndex(path, "/") + 1, Len(path))

\* The name holds one of the reserved characters < > : " | ? *.
HasReserved(name) ==
    \E i \in 1..Len(name) : name[i] \in {"<", ">", ":", "\"", "|", "?", "*"}

\* C17 as claimed: ValidateFilePath returns an InvalidFilePath error exactly
\* for the paths whose base name holds a reserved character, whatever the
\* length of the path, and no error for every other path.
C17_ReservedRejectedWhateverLength ==
    lastCall.op = "ValidateFilePath" =>
      IF HasReserved(LastElement(lastCall.args[1]))
      THEN IsTranscoderError(lastCall.result, ErrorTypeInvalidFilePath)
      ELSE lastCall.result = Nil

\* The arguments (each a one-word argument) occur in the list in this order,
\* one after the other.
HoldsWords(args, ws) == Contains(args, Words(ws))

\* C18: buildFFmpegArgs puts the preset's own arguments into the list exactly
\* when hardware mode is on and the preset is bound to the checker's platform
\* or to none; in every other case it puts the software arguments derived
\* from the preset there. Preset 1080p_h264 on the vendor-GPU platform gives
\* h264_nvenc and scale=1920:1080 with hardware mode on, and libx264 at CRF
\* 23 without h264_nvenc with hardware mode off.
C18_EncoderArguments ==
    lastCall.op = "buildFFmpegArgs" =>
      LET preset == lastCall.args[3]
          useHardware == lastCall.args[4]
          own == useHardware /\ (preset.Platform = lastCall.env.platform
                                 \/ preset.Platform = PlatformUnknown)
      IN  /\ HoldsWords(lastCall.result, preset.Args) <=> own
          /\ HoldsWords(lastCall.result, convertToSoftwarePreset(preset)) <=> ~own
          /\ ~own => /\ \E c \in {"libx264", "libx265"} :
                          HoldsWords(lastCall.result, <<"-c:v", c>>)
                     /\ \E i \in 1..Len(lastCall.result) : lastCall.result[i] = <<"-crf">>
          /\ (preset = nvencPresets["1080p_h264"]
              /\ lastCall.env.platform = PlatformNVIDIA) =>
               IF useHardware
               THEN /\ HoldsWords(lastCall.result, <<"-c:v", "h264_nvenc">>)
                    /\ HoldsWords(lastCall.result, <<"-vf", "scale=1920:1080">>)
               ELSE /\ HoldsWords(lastCall.result, <<"-c:v", "libx264">>)
                    /\ HoldsWords(lastCall.result, <<"-crf", "23">>)
                    /\ <<"h264_nvenc">> \notin Range(lastCall.result)

\* Witness of C18: in hardware mode, a vendor-GPU preset has been given to a
\* checker whose platform a failed GPU check had set to software.
C18_Witness ==
    /\ lastCall.op = "buildFFmpegArgs"
    /\ lastCall.args[4]
    /\ lastCall.args[3] = nvencPresets["1080p_h264"]
    /\ lastCall.env.platform = PlatformSoftware
    /\ HoldsWords(lastCall.result, <<"-c:v", "libx264">>)

\* C19 as claimed: in a batch with an analytics sink, the sink holds exactly
\* one row for each file whose processing has ended and none for the file
\* being processed or the files to come; the rows are in list order, and a
\* row's status is "error" exactly when that file's processing returned an
\* error.
C19_OneRowPerFile ==
    (entry # "ProcessFiles" /\ csvWriter) =>
      /\ Len(rows) = idx
      /\ Len(results) = idx
      /\ \A i \in 1..Len(rows) :
           /\ rows[i].filename = LastElement(files[i])
           /\ (rows[i].status = "error") <=> (results[i] # Nil)
           /\ (rows[i].status = "success") <=> (results[i] = Nil)

\* The twelve extensions of the allow-list, as the documentation names them.
AllowListed ==
    {<<".", "m", "p", "4">>, <<".", "m", "k", "v">>, <<".", "a", "v", "i">>,
     <<".", "m", "o", "v">>, <<".", "w", "m", "v">>, <<".", "f", "l", "v">>,
     <<".", "w", "e", "b", "m">>, <<".", "m", "4", "v">>, <<".", "3", "g", "p">>,
     <<".", "t", "s">>, <<".", "m", "t", "s">>, <<".", "m", "2", "t", "s">>}

\* The name ends, in any letter case, in an allow-listed extension.
VideoName(path) ==
    \E ext \in AllowListed :
        /\ Len(ext) <= Len(LastElement(path))
        /\ ToLower(SubSeq(path, Len(path) - Len(ext) + 1, Len(path))) = ext

\* The paths FindVideoFiles looks at: the input itself when it is not a
\* directory, else the immediate children or the whole subtree.
InScope(disk, root, recursive, path) ==
    IF ~IsDir(disk, root) THEN path = root
    ELSE /\ Below(path, root)
         /\ ~recursive => LastIndex(path, "/") = Len(root) + 1

\* The result of the call equals, as a list without repetitions, the set of
\* paths, with no error; a path that names nothing gives an error and no
\* file.
FindsExactly(call, paths) ==
    IF ~Exists(call.env.fs, call.args[1])
    THEN /\ call.result.files = <<>>
         /\ IsTranscoderError(call.result.err, ErrorTypeFileSystemError)
    ELSE /\ call.result.err = Nil
         /\ Range(call.result.files) = paths
         /\ Len(call.result.files) = Cardinality(paths)

\* C20: FindVideoFiles returns exactly the regular files in scope whose
\* lower-cased extension is allow-listed: the input itself or nothing for a
\* single file, the matching immediate children in non-recursive mode, every
\* matching file of the subtree in recursive mode, which is a superset of the
\* non-recursive result; a directory is never returned.
C20_ExactlyTheRegularFiles ==
    lastCall.op = "FindVideoFiles" =>
      LET disk == lastCall.env.fs
          root == lastCall.args[1]
      IN  /\ FindsExactly(lastCall,
                {e.path : e \in {x \in disk :
                    /\ x.regular
                    /\ InScope(disk, root, lastCall.args[2], x.path)
                    /\ VideoName(x.path)}})
          /\ \A p \in Range(lastCall.result.files) : ~IsDir(disk, p)
          /\ Range(FindVideoFiles(disk, root, FALSE).files)
                \subseteq Range(FindVideoFiles(disk, root, TRUE).files)

\* The disk holds no symbolic link and no directory that cannot be listed.
PlainDisk(disk) == \A e \in disk : e.link = <<>> /\ e.readable

\* What holds of FindVideoFiles. A directory is never returned. On a disk
\* without symbolic links and unlistable directories the call returns exactly
\* the entries in scope that are not directories (regular or not) and whose
\* lower-cased extension is allow-listed, and the recursive result includes
\* the non-recursive one.
C20_ExactlyTheNonDirectories ==
    lastCall.op = "FindVideoFiles" =>
      LET disk == lastCall.env.fs
          root == lastCall.args[1]
      IN  /\ \A p \in Range(lastCall.result.files) : ~IsDir(disk, p)
          /\ PlainDisk(disk) =>
               /\ FindsExactly(lastCall,
                     {e.path : e \in {x \in disk :
                         /\ ~x.isDir
                         /\ InScope(disk, root, lastCall.args[2], x.path)
                         /\ VideoName(x.path)}})
               /\ (Exists(disk, root) /\ ~IsDir(disk, root)) =>
                     lastCall.result.files \in {<<>>, <<root>>}
               /\ Range(FindVideoFiles(disk, root, FALSE).files)
                     \subseteq Range(FindVideoFiles(disk, root, TRUE).files)

\* A recursive search of the input root has returned the video of a
\* sub-directory with an upper-case extension and the video inside the
\* directory named d.mp4, but not that directory, and with them the special
\* entry p.mkv.
C20_Witness ==
    /\ lastCall.op = "FindVideoFiles"
    /\ lastCall.args = <<InputRoot, TRUE>>
    /\ Special(InputRoot \o <<"/", "p", ".", "m", "k", "v">>) \in lastCall.env.fs
    /\ InputRoot \o <<"/", "p", ".", "m", "k", "v">> \in Range(lastCall.result.files)
    /\ InputRoot \o <<"/", "s", "/", "c", ".", "A", "V", "I">> \in Range(lastCall.result.files)
    /\ InputRoot \o <<"/", "d", ".", "m", "p", "4", "/", "e", ".", "t", "s">>
         \in Range(lastCall.result.files)
    /\ IsDir(lastCall.env.fs, InputRoot \o <<"/", "d", ".", "m", "p", "4">>)
    /\ InputRoot \o <<"/", "d", ".", "m", "p", "4">> \notin Range(lastCall.result.files)

\* A recursive search of an input root that is a symbolic link to a directory
\* has returned no file and no error, where the non-recursive search returns
\* the video in that directory.
C20_WitnessLinkedRoot ==
    /\ lastCall.op = "FindVideoFiles"
    /\ lastCall.args = <<InputRoot, TRUE>>
    /\ \E e \in lastCall.env.fs : e.path = InputRoot /\ e.link # <<>>
    /\ IsDir(lastCall.env.fs, InputRoot)
    /\ lastCall.result = [files |-> <<>>, err |-> Nil]
    /\ FindVideoFiles(lastCall.env.fs, InputRoot, FALSE) =
         [files |-> <<InputRoot \o <<"/", "a", ".", "m", "p", "4">>>>, err |-> Nil]

\* A recursive search of a root with a sub-directory that cannot be listed
\* has returned the video found before that directory, with an error that
\* carries no kind, where the non-recursive search returns both videos of
\* the root and no error.
C20_WitnessUnlisted ==
    /\ lastCall.op = "FindVideoFiles"
    /\ lastCall.args = <<InputRoot, TRUE>>
    /\ \E e \in lastCall.env.fs : e.isDir /\ ~e.readable
    /\ lastCall.result.files = <<InputRoot \o <<"/", "a", ".", "m", "p", "4">>>>
    /\ lastCall.result.err # Nil
    /\ ~IsTranscoderError(lastCall.result.err, ErrorTypeFileSystemError)
    /\ FindVideoFiles(lastCall.env.fs, InputRoot, FALSE) =
         [files |-> <<InputRoot \o <<"/", "a", ".", "m", "p", "4">>,
                      InputRoot \o <<"/", "t", ".", "t", "s">>>>,
          err |-> Nil]

\* The file at position i got as far as its encode attempts or was skipped:
\* its probe passed and creating the output directory did not fail.
ReachedEncoding(i) ==
    LET cs == CallsOf(files[i])
    IN  /\ Len(cs) >= 1 /\ cs[1].tier = "probe" /\ cs[1].ok
        /\ ~(results[i] # Nil /\ results[i].Message = "failed to create output directory")

\* The hardware, software and safe attempts of file f were all launched and
\* all failed.
AllTiersFailed(f) ==
    \A t \in {"primary", "software", "safe"} :
      \E k \in 1..Len(calls) :
        calls[k].file = f /\ calls[k].tier = t /\ ~calls[k].ok

\* C21: with hardware enabled, a finished file whose probe passed and whose
\* output directory could be created returned an error exactly when its
\* hardware, software and safe attempts all failed, and that error is an
\* EncodingFailed the batch counts; when one tier succeeded it returned nil.
\* The batch goes on after either outcome: it returns only with a result for
\* every file of the list.
C21_FailureOnlyAfterAllTiers ==
    ~config.NoGPU =>
      /\ \A i \in 1..Len(results) :
           ReachedEncoding(i) =>
             /\ (results[i] # Nil) <=> AllTiersFailed(files[i])
             /\ results[i] # Nil =>
                  /\ IsTranscoderError(results[i], ErrorTypeEncodingFailed)
                  /\ results[i] \in Range(errors)
             /\ (\E k \in 1..Len(calls) :
                   calls[k].file = files[i] /\ calls[k].tier # "probe" /\ calls[k].ok)
                  => results[i] = Nil
      /\ Len(errors) = FailedCount
      /\ Len(results) = idx
      /\ BatchReturned => Len(results) = Len(files)

\* Witness of C21: the three tiers failed for the first file of a batch, the
\* second file was encoded by the software fallback, and the batch returned
\* with one counted failure.
C21_Witness ==
    /\ ~config.NoGPU
    /\ BatchReturned
    /\ Len(files) = 2
    /\ ReachedEncoding(1) /\ AllTiersFailed(files[1]) /\ results[1] # Nil
    /\ ReachedEncoding(2) /\ results[2] = Nil
    /\ \E k \in 1..Len(calls) :
         calls[k].file = files[2] /\ calls[k].tier = "software" /\ calls[k].ok
    /\ Len(errors) = 1

\* C22 as claimed: the error per-file processing returns to the batch after a
\* failed probe is a tagged error that IsTranscoderError recognises as
\* EncodingFailed.
C22_ProbeFailureIsEncodingFailed ==
    \A i \in 1..Len(results) :
      LET cs == CallsOf(files[i])
      IN  (Len(cs) >= 1 /\ cs[1].tier = "probe" /\ ~cs[1].ok) =>
            IsTranscoderError(results[i], ErrorTypeEncodingFailed)

\* The check recorded is a GPU check that ended on an index out of range.
IndexOutOfRange(check) ==
    /\ check.op = "CheckGPUAvailability"
    /\ check.before # PlatformAppleSilicon
    /\ ~check.execFailed
    /\ ListedDevices(check.output) >= 1
    /\ check.gpuIndex >= ListedDevices(check.output)

\* C23: a step changes the platform value only by a GPU check made off Apple
\* Silicon; the value becomes SoftwareOnly only when the listing failed or
\* listed no device, and VendorGPU only when the check returned nil; a check
\* that fails on the index, every check on Apple Silicon, the FFmpeg check,
\* the encoder check, file discovery, argument building and file processing
\* leave it as it was.
C23_PlatformWrittenOnlyByGPUCheck ==
    [][/\ platform' # platform =>
            /\ lastCheck'.op = "CheckGPUAvailability"
            /\ lastCheck'.before = platform
            /\ platform # PlatformAppleSilicon
            /\ lastCall' = lastCall /\ calls' = calls /\ files' = files
            /\ platform' \in {PlatformSoftware, PlatformNVIDIA}
            /\ platform' = PlatformSoftware =>
                 /\ lastCheck'.err # Nil
                 /\ lastCheck'.execFailed \/ ListedDevices(lastCheck'.output) = 0
            /\ platform' = PlatformNVIDIA =>
                 /\ lastCheck'.err = Nil
                 /\ ~lastCheck'.execFailed
                 /\ lastCheck'.gpuIndex < ListedDevices(lastCheck'.output)
       /\ (lastCheck' # lastCheck /\ lastCheck'.op # "CheckGPUAvailability") =>
            platform' = platform
       /\ (lastCheck' # lastCheck /\ IndexOutOfRange(lastCheck')) =>
            /\ lastCheck'.err # Nil
            /\ platform' = platform
       /\ (lastCall' # lastCall \/ calls' # calls \/ files' # files
           \/ results' # results) => platform' = platform
       /\ platform = PlatformAppleSilicon => platform' = platform]_vars

\* Witness of C23: a checker that an earlier failed listing had downgraded to
\* SoftwareOnly has failed a check on the index and is still SoftwareOnly,
\* after arguments were built on it.
C23_Witness ==
    /\ IndexOutOfRange(lastCheck)
    /\ lastCheck.before = PlatformSoftware
    /\ platform = PlatformSoftware
    /\ lastCall.op = "buildFFmpegArgs"

\* The encoders by family, and the names of hardware and AV1 encoders.
H264Encoders == {"h264_nvenc", "h264_videotoolbox"}

H265Encoders == {"hevc_nvenc", "hevc_videotoolbox"}

AV1Encoders == {"av1_nvenc", "libsvtav1"}

\* The value after flag in a list of words, when the list holds one.
ValuesAfter(ws, flag) == {ws[i + 1] : i \in {k \in 1..(Len(ws) - 1) : ws[k] = flag}}

\* The value after the first occurrence of flag that has a value.
FirstAfter(ws, flag) ==
    ws[(CHOOSE i \in 1..(Len(ws) - 1) :
            ws[i] = flag /\ \A j \in 1..(i - 1) : ws[j] # flag) + 1]

\* C24: the software arguments derived from a preset select libx264 for a
\* preset bound to an H.264 encoder and for a preset bound to an AV1 encoder
\* (then with CRF 18 and the profile slower), libx265 for a preset bound to
\* an H.265 encoder; they name no hardware and no AV1 encoder; their scale
\* filter is the value after the scale flag in the preset's own arguments,
\* scale=-1:-1 when there is none; and they carry the preset's bitrate as
\* target, ceiling and buffer size.
C24_SoftwareArguments ==
    lastCall.op = "convertToSoftwarePreset" =>
      LET preset == lastCall.args[1]
          out == lastCall.result
      IN  /\ preset.Encoder \in H264Encoders =>
               ValuesAfter(out, "-c:v") = {"libx264"}
          /\ preset.Encoder \in AV1Encoders =>
               /\ ValuesAfter(out, "-c:v") = {"libx264"}
               /\ ValuesAfter(out, "-crf") = {"18"}
               /\ ValuesAfter(out, "-preset") = {"slower"}
          /\ preset.Encoder \in H265Encoders =>
               ValuesAfter(out, "-c:v") = {"libx265"}
          /\ \A i \in 1..Len(out) :
               out[i] \notin H264Encoders \cup H265Encoders \cup AV1Encoders
          /\ ValuesAfter(out, "-vf") =
               IF ValuesAfter(preset.Args, "-vf") = {} THEN {"scale=-1:-1"}
               ELSE {FirstAfter(preset.Args, "-vf")}
          /\ preset.Bitrate # "" =>
               /\ ValuesAfter(out, "-b:v") = {preset.Bitrate}
               /\ ValuesAfter(out, "-maxrate") = {preset.Bitrate}
               /\ ValuesAfter(out, "-bufsize") = {preset.Bitrate}
          /\ preset.Bitrate = "" =>
               ValuesAfter(out, "-b:v") \cup ValuesAfter(out, "-maxrate")
                 \cup ValuesAfter(out, "-bufsize") = {}

\* Witness of C24: the Apple Silicon preset 4k_av1, bound to the software AV1
\* encoder, has been converted to libx264 with its scale filter and bitrate.
C24_Witness ==
    /\ lastCall.op = "convertToSoftwarePreset"
    /\ lastCall.args[1] = appleSiliconPresets["4k_av1"]
    /\ lastCall.args[1].Encoder = "libsvtav1"
    /\ lastCall.result = <<"-c:v", "libx264", "-preset", "slower", "-crf", "18",
                           "-vf", "scale=3840:2160", "-b:v", "15M",
                           "-maxrate", "15M", "-bufsize", "15M">>

\* The positions of a one-word argument in an argument list.
PositionsOf(args, word) == {i \in 1..Len(args) : args[i] = <<word>>}

\* C25: the list buildFFmpegArgs returns starts with -hide_banner -loglevel
\* warning; holds -i once, followed by the input path; holds a -hwaccel hint
\* only in hardware mode, and then before -i; holds the video arguments after
\* the input and the audio handling after them (-c:a copy when the audio
\* codec is empty or copy, else the codec at 128k); and ends with -y followed
\* by the output path.
C25_ArgumentListShape ==
    lastCall.op = "buildFFmpegArgs" =>
      LET out == lastCall.result
          n == Len(out)
          inputPath == lastCall.args[1]
          preset == lastCall.args[3]
          useHardware == lastCall.args[4]
          audioCodec == lastCall.args[5]
          audio == IF audioCodec \in {"", "copy"} THEN <<"-c:a", "copy">>
                   ELSE <<"-c:a", audioCodec, "-b:a", "128k">>
      IN  /\ SubSeq(out, 1, 3) = Words(<<"-hide_banner", "-loglevel", "warning">>)
          /\ Cardinality(PositionsOf(out, "-i")) = 1
          /\ \A i \in PositionsOf(out, "-i") :
               /\ out[i + 1] = inputPath
               /\ PositionsOf(out, "-hwaccel") \in {{}, {i - 2}}
               /\ \A v \in PositionsOf(out, "-c:v") \cup PositionsOf(out, "-vf") : v > i + 1
               /\ SubSeq(out, i + 2, n - 2 - Len(audio))
                    \in {Words(preset.Args), Words(convertToSoftwarePreset(preset))}
          /\ PositionsOf(out, "-hwaccel") # {} => useHardware
          /\ ~useHardware => PositionsOf(out, "-hwaccel") = {}
          /\ PositionsOf(out, "-c:a") = {n - 1 - Len(audio)}
          /\ SubSeq(out, n - 1 - Len(audio), n - 2) = Words(audio)
          /\ \A v \in PositionsOf(out, "-c:v") \cup PositionsOf(out, "-vf") :
               v < n - 1 - Len(audio)
          /\ out[n - 1] = <<"-y">>
          /\ out[n] = lastCall.args[2]

\* Witness of C25: a list with a decode-acceleration hint, the preset's own
\* arguments and an audio codec of its own has been built.
C25_Witness ==
    /\ lastCall.op = "buildFFmpegArgs"
    /\ lastCall.args[4]
    /\ lastCall.args[5] = "aac"
    /\ HoldsWords(lastCall.result, <<"-hwaccel", "auto", "-i">>)
    /\ HoldsWords(lastCall.result, lastCall.args[3].Args \o <<"-c:a", "aac", "-b:a", "128k", "-y">>)

\* The characters SanitizeFilename removes, and the path separators.
Removed == {"<", ">", ":", "\"", "|", "?", "*"}

Separators == {"/", "\\"}

\* The name has none of these characters, no two dots in a row, at most 180
\* characters, and no dot or space at its end.
CleanName(s) ==
    /\ \A i \in 1..Len(s) : s[i] \notin Removed \cup Separators
    /\ \A i \in 1..(Len(s) - 1) : ~(s[i] = "." /\ s[i + 1] = ".")
    /\ Len(s) <= 180
    /\ Len(s) > 0 => s[Len(s)] \notin {".", " "}

\* The name without its removed characters, each separator turned into an
\* underscore.
Replaced(s) ==
    LET kept == SelectSeq(s, LAMBDA c : c \notin Removed)
    IN  [i \in 1..Len(kept) |-> IF kept[i] \in Separators THEN "_" ELSE kept[i]]

\* C26: the output of SanitizeFilename holds none of < > : " | ? * / \, no
\* two consecutive dots, at most 180 characters, and no dot or space at its
\* end; an input that is already so is returned unchanged; in a short name
\* without dots and spaces the seven characters are removed and each
\* separator is an underscore.
C26_SanitizedNameIsClean ==
    lastCall.op = "SanitizeFilename" =>
      /\ CleanName(lastCall.result)
      /\ CleanName(lastCall.args[1]) => lastCall.result = lastCall.args[1]
      /\ (Len(lastCall.args[1]) <= MaxHostile + 2
          /\ \A i \in 1..Len(lastCall.args[1]) : lastCall.args[1][i] \notin {".", " "})
           => lastCall.result = Replaced(lastCall.args[1])

\* Witness of C26: a name with a reserved character was cut at the length
\* limit and ended in a space there, which was trimmed.
C26_Witness ==
    /\ lastCall.op = "SanitizeFilename"
    /\ Len(lastCall.args[1]) > MaxFilenameLen + 1
    /\ \E i \in 1..Len(lastCall.args[1]) : lastCall.args[1][i] = ":"
    /\ Len(lastCall.result) = MaxFilenameLen - 1
    /\ lastCall.result \o <<" ">> = Take(Replaced(lastCall.args[1]), MaxFilenameLen)

\* The presets of the two registries.
RegistryPresets ==
    {nvencPresets[n] : n \in DOMAIN nvencPresets}
    \cup {appleSiliconPresets[n] : n \in DOMAIN appleSiliconPresets}

\* C27: on a checker whose platform is Unknown or SoftwareOnly, the list
\* buildFFmpegArgs returns for a registry preset is the same in hardware mode
\* and in software mode: no decode-acceleration hint, and the software
\* arguments derived from the preset.
C27_SameListWithoutHardwarePlatform ==
    (lastCall.op = "buildFFmpegArgs"
     /\ lastCall.env.platform \in {PlatformUnknown, PlatformSoftware}
     /\ lastCall.args[3] \in RegistryPresets) =>
      /\ lastCall.result =
           buildFFmpegArgs(lastCall.args[1], lastCall.args[2], lastCall.args[3],
                           ~lastCall.args[4], lastCall.env.platform, lastCall.args[5])
      /\ PositionsOf(lastCall.result, "-hwaccel") = {}
      /\ HoldsWords(lastCall.result, convertToSoftwarePreset(lastCall.args[3]))
      /\ ~HoldsWords(lastCall.result, lastCall.args[3].Args)

\* C27, in the chain: on such a platform the software fallback of a file runs
\* the command its hardware attempt ran.
C27_ChainRunsSameCommand ==
    platform \in {PlatformUnknown, PlatformSoftware} =>
      \A k \in 1..Len(calls) :
        calls[k].tier = "software" =>
          /\ k > 1
          /\ calls[k - 1].tier = "primary" /\ calls[k - 1].useHardware
          /\ calls[k - 1].file = calls[k].file
          /\ calls[k - 1].args = calls[k].args

\* Witness of C27: on a checker whose platform is still Unknown a vendor-GPU
\* preset has been built in hardware mode, and the list has libx264 and no
\* hint.
C27_Witness ==
    /\ lastCall.op = "buildFFmpegArgs"
    /\ lastCall.args[4]
    /\ lastCall.env.platform = PlatformUnknown
    /\ lastCall.args[3] = nvencPresets["4k_av1"]
    /\ HoldsWords(lastCall.result, <<"-loglevel", "warning", "-i">>)
    /\ HoldsWords(lastCall.result, <<"-c:v", "libx264", "-preset", "slower">>)

\* A path of at most 260 characters whose base name holds a reserved
\* character.
ShortReserved(f) == Len(f) <= 260 /\ HasReserved(LastElement(f))

\* C28: with a preset the registry holds, a file of at most 260 characters
\* whose base name holds a reserved character, once its processing has got to
\* the path validation, returns the error "invalid file path" around the
\* InvalidFilePath error, which the batch counts; no probe and no encode
\* invocation is ever launched for it, no output path is computed for it, and
\* the batch goes on to a result for every file.
C28_ReservedNameEndsBeforeProbe ==
    config.Preset \in GetAvailablePresets(appleSilicon) =>
      /\ \A k \in 1..Len(calls) : ~ShortReserved(calls[k].file)
      /\ pc \in {"probe", "mkdir", "primary", "software", "safe"} =>
           ~ShortReserved(CurrentFile)
      /\ \A i \in 1..Len(results) :
           (ShortReserved(files[i])
            /\ ~IsTranscoderError(results[i], ErrorTypeFileSystemError)) =>
             /\ results[i].kind = "errorString"
             /\ results[i].Message = "invalid file path"
             /\ ErrorTypeInvalidFilePath \in results[i].Embedded
             /\ results[i] \in Range(errors)
      /\ BatchReturned => Len(results) = Len(files)

\* Witness of C28: in a batch of two files the one named b?.mp4 returned the
\* invalid-path error and the other one was encoded; the batch returned the
\* aggregate error.
C28_Witness ==
    /\ BatchReturned
    /\ Len(files) = 2
    /\ \E i \in 1..2 :
         /\ ShortReserved(files[i])
         /\ results[i].Message = "invalid file path"
         /\ CallsOf(files[3 - i]) # <<>>
         /\ results[3 - i] = Nil
    /\ Len(calls) >= 2
    /\ runErr # Nil

\* The invocations launched so far keep to the bounds: for each file at most
\* one probe and at most three encode invocations, at most one in
\* software-only mode, no tier twice, and the invocations of a file come one
\* after the other, in the order of the list.
CallBounds ==
    /\ \A f \in {calls[k].file : k \in 1..Len(calls)} :
         /\ f \in Range(files)
         /\ Len(CallsOf(f)) - Len(EncodesOf(f)) <= 1
         /\ Len(EncodesOf(f)) <= IF config.NoGPU THEN 1 ELSE 3
         /\ \A j, k \in 1..Len(calls) :
              (j < k /\ calls[j].file = f /\ calls[k].file = f) =>
                /\ calls[j].tier # calls[k].tier
                /\ \A m \in j..k : calls[m].file = f
    /\ \A j, k \in 1..Len(calls) :
         j < k => FileIndex(calls[j].file) <= FileIndex(calls[k].file)
    /\ Len(calls) <= 4 * Len(files)

\* C29: when every external process exits, the run ends: the batch returns
\* after a result for each of its files; and at every moment the invocations
\* launched keep to the bounds above.
C29_BatchTerminates ==
    /\ []CallBounds
    /\ <>(pc = "done" /\ (BatchReturned => Len(results) = Len(files)))

\* Witness of C29: a batch of two files has returned after the probe and the
\* three encode attempts of one file and the probe and one attempt of the
\* other.
C29_Witness ==
    /\ BatchReturned
    /\ Len(files) = 2
    /\ Len(calls) = 6
    /\ \E f \in Range(files) : Len(EncodesOf(f)) = 3

\* The files at positions i < j are distinct, lie in the same directory, and
\* have the same name once the extension is removed and the rest sanitized.
Collide(i, j) ==
    /\ i < j
    /\ files[i] # files[j]
    /\ SubSeq(files[i], 1, LastIndex(files[i], "/"))
         = SubSeq(files[j], 1, LastIndex(files[j], "/"))
    /\ SanitizeFilename(StemOf(files[i])) = SanitizeFilename(StemOf(files[j]))

\* An encode invocation of the file at position i has succeeded.
Produced(i) ==
    \E k \in 1..Len(calls) :
      calls[k].file = files[i] /\ calls[k].tier # "probe" /\ calls[k].ok

\* The file whose encode invocation was the last to succeed in writing path.
LastWriter(path) ==
    LET ks == {k \in 1..Len(calls) :
                  /\ calls[k].tier # "probe" /\ calls[k].ok
                  /\ calls[k].args[Len(calls[k].args)] = path}
    IN  calls[CHOOSE k \in ks : \A m \in ks : m <= k].file

\* C30: two distinct files of a batch in the same directory whose names are
\* equal after removing the extension and sanitizing are given the same
\* output path. Once the earlier one has produced that output, the later one,
\* when finished: with overwrite disabled has no encode invocation and, its
\* probe having passed, was skipped and returned nil; with overwrite enabled
\* every encode invocation it has writes, with -y, to that same path, it has
\* such an invocation whenever its probe passed and the output directory
\* could be made, and after a successful one the output on disk is the later
\* file's.
C30_CollidingOutputs ==
    config.Preset \in GetAvailablePresets(appleSilicon) =>
      \A i, j \in 1..Len(files) :
        Collide(i, j) =>
          LET out == ExpectedOutput(files[j])
              es == EncodesOf(files[j])
          IN  /\ ExpectedOutput(files[i]) = out
              /\ (j <= Len(results) /\ Produced(i)) =>
                   IF ~config.Overwrite
                   THEN /\ es = <<>>
                        /\ (CallsOf(files[j]) # <<>> /\ CallsOf(files[j])[1].ok) =>
                              Skipped(j) /\ results[j] \notin Range(errors)
                   ELSE /\ \A k \in 1..Len(es) :
                             /\ es[k].args[Len(es[k].args)] = out
                             /\ es[k].args[Len(es[k].args) - 1] = <<"-y">>
                        /\ (/\ CallsOf(files[j]) # <<>>
                            /\ CallsOf(files[j])[1].ok
                            /\ results[j].Message # "failed to create output directory")
                              => es # <<>>
                        /\ Produced(j) =>
                             /\ results[j] = Nil
                             /\ Exists(fs, out)
                             /\ LastWriter(out) = files[j]

\* Witness of C30: a.mkv and a.mp4 of one directory were processed with
\* overwrite disabled; the first was encoded, the second skipped, and the
\* batch returned no error.
C30_Witness ==
    /\ BatchReturned
    /\ ~config.Overwrite
    /\ Len(files) = 2
    /\ Collide(1, 2)
    /\ Produced(1)
    /\ Skipped(2)
    /\ runErr = Nil

\* In another batch, with overwrite enabled, the second file's successful
\* encode replaced the first file's output.
C30_WitnessOverwrite ==
    /\ BatchReturned
    /\ config.Overwrite
    /\ Len(files) = 2
    /\ Collide(1, 2)
    /\ Produced(1)
    /\ Produced(2)
    /\ LastWriter(ExpectedOutput(files[1])) = files[2]

====
